---------------------------- MODULE Spec2Model ----------------------------
(***************************************************************************)
(* Harmonic analysis of yaaat: fundamental detection from PSD peaks        *)
(* (algs/fuzzy_valley.py), per-frame ridge tracking of harmonic lines      *)
(* (layers/harmonic_layer.py), valley search between adjacent harmonics    *)
(* (algs/fuzzy_valley.py) and the harmonic-line state of HarmonicLayer.    *)
(*                                                                         *)
(* Frequencies are integers (Hz), fractions such as a tolerance are pairs  *)
(* <<numerator, denominator>> and comparisons are cross-multiplied, so the *)
(* arithmetic is exact; floating-point rounding is not modelled.  An       *)
(* optional value (Python None or a value) is <<>> or <<v>>.               *)
(***************************************************************************)
EXTENDS Integers, Sequences, FiniteSets, TLC

VARIABLES
    \* detect_fundamental_and_harmonics_from_psd: arguments and result
    peak_freqs,            \* frequencies of the peaks find_peaks returned
    fmax,                  \* upper edge of the search band
    max_harmonics,
    harmonic_tolerance,    \* fraction <<num, den>>
    best_fundamental,      \* returned F0: <<>> (None) or <<f>>
    best_harmonic_series,  \* returned series
    \* HarmonicLayer: the harmonic lines, the ridge settings and the ridges
    harmonic_lines,        \* sequence of [num, freq]
    ridge_method,          \* "max", "peaks", "centroid", "parabolic"
    prominence,            \* minimum peak prominence (dB)
    peak_tolerance,        \* fraction <<num, den>>, used by method "peaks"
    harmonic_ridges,       \* {harmonic number: ridge}, a function
    \* detect_ridges_*: the loop over the frames
    t_idx,                 \* number of frames processed
    spectrum,              \* S_db[:, t_idx] of the frame just processed
    ridge,                 \* per line of harmonic_lines, its ridge so far
    \* a second run of the tracker on a spectrogram that differs in one frame
    corrupt_idx,           \* the frame that differs (0: no second run)
    ridge_b,               \* the ridges of the second run so far
    \* HarmonicLayer: the loaded spectrogram, the detected F0, "Show Ridges"
    S_db,                  \* <<>> (None) or the columns, one per frame
    detected_f0,           \* <<>> (None) or <<f0>>
    show_ridges,           \* the "Show Ridges" checkbox
    \* HarmonicLayer: the contour controls and the contours
    show_contour,          \* the "Show Contour" checkbox
    contour_method,        \* "raw", "smooth", "poly", "spline"
    contour_smoothness,    \* the slider, in tenths (50 is 5.0)
    harmonic_contours,     \* {harmonic number: contour}, a function
    \* find_valleys_between_harmonics: arguments, loop and result
    valley_margin,         \* fraction <<num, den>>
    min_gap,               \* Hz
    frame_data,            \* the 'harmonics' of the frame just processed
    valley_tracks,         \* {pair_key: valleys}, a function
    \* apply_learned_corrections: the model, the tracks, the loop, the report
    is_trained,            \* corrector_model.is_trained
    predictions,           \* the calls of predict_correction: prior, answer
    log_magnitude,         \* self.log_magnitude, one column per frame
    harmonic_tracks,       \* self.harmonic_tracks: per frame, the detections
    tracks_on_entry,       \* self.harmonic_tracks when the function was called
    n_done,                \* number of detections the loop has processed
    corrections_applied,   \* <<>> (not assigned yet) or <<count>>
    reported,              \* the count printed at the end: <<>> or <<n>>
    \* HarmonicLayer: the line being dragged
    selected_line,         \* <<>> (None) or <<num of the selected line>>
    drag_start_y,          \* <<>> (None) or <<frequency at the press>>
    \* track_harmonics_with_template: the arguments
    harmonic_series,       \* the expected frequencies
    freq_tolerance,        \* fraction <<num, den>>
    curve_smoothing_window,
    pc                     \* position of the run: "start", "done", ...

detectVars == <<peak_freqs, fmax, max_harmonics, harmonic_tolerance,
                best_fundamental, best_harmonic_series>>

layerVars == <<harmonic_lines, ridge_method, prominence, peak_tolerance,
               harmonic_ridges>>

trackVars == <<t_idx, spectrum, ridge>>

pairVars == <<corrupt_idx, ridge_b>>

guiVars == <<S_db, detected_f0, show_ridges>>

contourVars == <<show_contour, contour_method, contour_smoothness,
                 harmonic_contours>>

valleyVars == <<valley_margin, min_gap, frame_data, valley_tracks>>

correctVars == <<is_trained, predictions, log_magnitude, harmonic_tracks,
                 tracks_on_entry, n_done, corrections_applied, reported>>

dragVars == <<selected_line, drag_start_y>>

templateVars == <<harmonic_series, freq_tolerance, curve_smoothing_window>>

vars == <<detectVars, layerVars, trackVars, pairVars, guiVars, contourVars,
          valleyVars, correctVars, dragVars, templateVars, pc>>

None == <<>>
Some(x) == <<x>>

Abs(x) == IF x < 0 THEN 0 - x ELSE x
Min(a, b) == IF a < b THEN a ELSE b
Max(a, b) == IF a > b THEN a ELSE b

SetMin(S) == CHOOSE x \in S : \A y \in S : x <= y

RECURSIVE SortedSeq(_)
\* sorted(...) of a set of distinct numbers, ascending
SortedSeq(S) ==
    IF S = {} THEN <<>>
    ELSE LET m == SetMin(S) IN <<m>> \o SortedSeq(S \ {m})

(***************************************************************************)
(* FuzzyValley.detect_fundamental_and_harmonics_from_psd                   *)
(***************************************************************************)

\* fmin=100, the default of the signature
fmin == 100

\* peak_freqs_by_freq[:min(10, len(...))]
MaxCandidates == 10

\* Bounds of the peak sets tried: the detected peaks are any subset of
\* NLowPeaks frequencies 50 Hz apart (the minimum peak separation find_peaks
\* is given) from 460 Hz and of the first NHighPeaks multiples of 1000 Hz.
NLowPeaks == 10
NHighPeaks == 3

PeakGrid ==
    {460 + 50 * i : i \in 0 .. (NLowPeaks - 1)}
        \cup {1000 * k : k \in 1 .. NHighPeaks}

FmaxChoices == {2000, 3000}
MaxHarmonicsChoices == {1, 3, 10}
ToleranceChoices == {<<1, 20>>, <<1, 5>>, <<3, 5>>}

\* a PSD with peaks at f, 2f, 3f, 4f and nowhere else
SyntheticPeaks == {500, 1000, 1500, 2000}

\* freq_mask = (freqs >= fmin) & (freqs <= fmax): peaks lie in the band
InBand(f, hi) == f >= fmin /\ f <= hi

\* np.argmin(np.abs(peak_freqs - expected_freq)): the first minimum, and
\* peak_freqs ascends, so the lowest of the peaks at minimal distance
ClosestPeak(peaks, expected_freq) ==
    LET d == SetMin({Abs(p - expected_freq) : p \in peaks})
    IN  SetMin({p \in peaks : Abs(p - expected_freq) = d})

\* freq_diffs[closest_idx] < tolerance, tolerance = f0_candidate * tol
WithinToleranceAlways(diff, f0_candidate, tol) == TRUE
WithinToleranceNever(diff, f0_candidate, tol) == FALSE
WithinTolerance(diff, f0_candidate, tol) ==
    diff * tol[2] < f0_candidate * tol[1]

RECURSIVE HarmonicSeriesFrom(_, _, _, _, _, _)
\* for harmonic_num in range(2, max_harmonics + 1): ... break / append
HarmonicSeriesFrom(peaks, f0_candidate, harmonic_num, maxh, hi, tol) ==
    LET expected_freq == f0_candidate * harmonic_num
        closest == ClosestPeak(peaks, expected_freq)
        rest == HarmonicSeriesFrom(peaks, f0_candidate, harmonic_num + 1,
                                   maxh, hi, tol)
    IN  IF harmonic_num > maxh THEN <<>>
        ELSE IF expected_freq > hi THEN <<>>
        ELSE IF WithinTolerance(Abs(closest - expected_freq), f0_candidate, tol)
             THEN <<closest>> \o rest
             ELSE rest

\* harmonic_series = [f0_candidate] + accepted members
HarmonicSeriesCandidateLast(peaks, f0_candidate, maxh, hi, tol) ==
    HarmonicSeriesFrom(peaks, f0_candidate, 2, maxh, hi, tol) \o <<f0_candidate>>
HarmonicSeries(peaks, f0_candidate, maxh, hi, tol) ==
    <<f0_candidate>> \o HarmonicSeriesFrom(peaks, f0_candidate, 2, maxh, hi, tol)

\* if score > best_score
BetterScoreOrEqual(score, best_score) == score >= best_score
BetterScoreAtLeastTwo(score, best_score) == score > best_score /\ score >= 2
BetterScore(score, best_score) == score > best_score

\* peak_freqs_by_freq[:min(10, len(peak_freqs_by_freq))]
Candidates(peaks) ==
    LET s == SortedSeq(peaks) IN SubSeq(s, 1, Min(MaxCandidates, Len(s)))

RECURSIVE CandidateLoop(_, _, _, _, _, _, _)
\* the loop over the candidates; best = [fundamental, series, score]
CandidateLoop(cands, i, best, peaks, maxh, hi, tol) ==
    IF i > Len(cands) THEN best
    ELSE LET f0_candidate == cands[i]
             series == HarmonicSeries(peaks, f0_candidate, maxh, hi, tol)
             score == Len(series)
             next == IF f0_candidate < fmin THEN best
                     ELSE IF BetterScore(score, best.score)
                          THEN [fundamental |-> Some(f0_candidate),
                                series |-> series, score |-> score]
                          ELSE best
         IN  CandidateLoop(cands, i + 1, next, peaks, maxh, hi, tol)

\* the whole function, from the peaks on: (best_fundamental, series)
DetectResult(peaks, maxh, hi, tol) ==
    IF peaks = {}
    THEN [fundamental |-> None, series |-> <<>>, score |-> 0]
    ELSE CandidateLoop(Candidates(peaks), 1,
                       [fundamental |-> None, series |-> <<>>, score |-> 0],
                       peaks, maxh, hi, tol)

DetectInit ==
    /\ fmax \in FmaxChoices
    /\ peak_freqs \in
          SUBSET {f \in PeakGrid : InBand(f, fmax)} \cup {SyntheticPeaks}
    /\ max_harmonics \in MaxHarmonicsChoices
    /\ harmonic_tolerance \in ToleranceChoices
    /\ best_fundamental = None
    /\ best_harmonic_series = <<>>

DetectIdle ==
    /\ peak_freqs = {}
    /\ fmax = 0
    /\ max_harmonics = 0
    /\ harmonic_tolerance = <<0, 1>>
    /\ best_fundamental = None
    /\ best_harmonic_series = <<>>

DetectFundamental ==
    /\ pc = "start"
    /\ LET r == DetectResult(peak_freqs, max_harmonics, fmax, harmonic_tolerance)
       IN  /\ best_fundamental' = r.fundamental
           /\ best_harmonic_series' = r.series
    /\ pc' = "done"
    /\ UNCHANGED <<peak_freqs, fmax, max_harmonics, harmonic_tolerance>>
    /\ UNCHANGED <<layerVars, trackVars, pairVars, guiVars, contourVars, correctVars, valleyVars>>
    /\ UNCHANGED <<dragVars, templateVars>>


(***************************************************************************)
(* HarmonicLayer.detect_ridges_max / _peaks / _centroid / _parabolic       *)
(*                                                                         *)
(* S_db is a matrix of dB values over the frequency axis freqs and the     *)
(* frames; the tracker only reads it.  Each method loops over the lines    *)
(* of harmonic_lines and, for each line, over the frames; an iteration     *)
(* reads column t_idx of S_db and appends to the line's own ridge, so the  *)
(* model advances frame by frame, draws the column of the frame when it is *)
(* read and runs the iteration of every line on it.                        *)
(***************************************************************************)

\* number of frames of the spectrogram
NFrames == 2

\* self.freqs: a linear axis, 100 Hz per bin
freqs == <<800, 900, 1000, 1100, 1200>>

NBins == Len(freqs)

\* self.times[t_idx]
times == [t \in Nat |-> t]

\* the values a bin of S_db takes (dB)
DbLevels == {0, 10, 20}

Columns == [1 .. NBins -> DbLevels]

RECURSIVE Pow10(_)
Pow10(n) == IF n = 0 THEN 1 ELSE 10 * Pow10(n - 1)

\* 10 ** (local_spectrum / 20), in hundredths, to three digits
Linear(db) ==
    IF (db \div 10) % 2 = 0
    THEN 100 * Pow10(db \div 20)
    ELSE 316 * Pow10(db \div 20)

RECURSIVE SumOver(_, _, _)
\* np.sum of F[b] * G[b] over the bins of W
SumOver(W, F, G) ==
    IF W = {} THEN 0
    ELSE LET b == SetMin(W) IN F[b] * G[b] + SumOver(W \ {b}, F, G)

\* freq_mask = (freqs >= expected - tolerance) & (freqs <= expected + tolerance),
\* tolerance = expected_freq * tol
FreqMask(expected_freq, tol) ==
    {b \in 1 .. NBins :
        /\ freqs[b] * tol[2] >= expected_freq * (tol[2] - tol[1])
        /\ freqs[b] * tol[2] <= expected_freq * (tol[2] + tol[1])}

\* search_indices[np.argmax(spectrum[freq_mask])]: the first bin of the
\* maximum, as a bin of the whole axis
ArgMaxLocalIndex(spec, W) ==
    SetMin({b \in W : \A c \in W : spec[c] <= spec[b]}) - SetMin(W) + 1
ArgMaxLast(spec, W) ==
    CHOOSE b \in W :
       /\ \A c \in W : spec[c] <= spec[b]
       /\ \A c \in W : spec[c] = spec[b] => c <= b
ArgMax(spec, W) ==
    SetMin({b \in W : \A c \in W : spec[c] <= spec[b]})

\* scipy.signal.find_peaks on spec restricted to the bins W (a range):
\* a flat run strictly higher than both its neighbours, reported at its
\* middle bin (rounded down); the first and last bin are never a peak
LocalMaxima(spec, W) ==
    {(l + r) \div 2 : <<l, r>> \in
        {lr \in W \X W :
            /\ lr[1] <= lr[2]
            /\ (lr[1] - 1) \in W /\ (lr[2] + 1) \in W
            /\ \A b \in lr[1] .. lr[2] : spec[b] = spec[lr[1]]
            /\ spec[lr[1] - 1] < spec[lr[1]]
            /\ spec[lr[2] + 1] < spec[lr[2]]}}

\* scipy peak_prominences: the peak's height above the higher of the two
\* minima between it and the next strictly higher bin (or the border)
PeakProminence(spec, W, pk) ==
    LET leftStop == {b \in W : b < pk /\ spec[b] > spec[pk]}
        rightStop == {b \in W : b > pk /\ spec[b] > spec[pk]}
        lo == IF leftStop = {} THEN SetMin(W)
              ELSE (CHOOSE b \in leftStop : \A c \in leftStop : c <= b) + 1
        hi == IF rightStop = {} THEN CHOOSE b \in W : \A c \in W : c <= b
              ELSE SetMin(rightStop) - 1
        left_min == SetMin({spec[b] : b \in lo .. pk})
        right_min == SetMin({spec[b] : b \in pk .. hi})
    IN  spec[pk] - Max(left_min, right_min)

\* find_peaks(local_spectrum, prominence=self.prominence.get())
FindPeaks(spec, W, prom) ==
    {pk \in LocalMaxima(spec, W) : PeakProminence(spec, W, pk) >= prom}

\* np.argmin(np.abs(peak_freqs - expected_freq)): first minimum
ClosestBinFirst(P, expected_freq) == SetMin(P)
ClosestBin(P, expected_freq) ==
    LET d == SetMin({Abs(freqs[b] - expected_freq) : b \in P})
    IN  SetMin({b \in P : Abs(freqs[b] - expected_freq) = d})

\* the frequency a frame contributes, <<>> or <<f>>, f = <<num, den>>

\* detect_ridges_max, one frame: tolerance 0.1
RidgeMax(spec, expected_freq) ==
    LET W == FreqMask(expected_freq, <<1, 10>>)
    IN  IF W = {} THEN None
        ELSE Some(<<freqs[ArgMax(spec, W)], 1>>)

\* detect_ridges_peaks, one frame
RidgePeaks(spec, expected_freq, prom, ptol) ==
    LET W == FreqMask(expected_freq, ptol)
        peaks == FindPeaks(spec, W, prom)
    IN  IF W = {} \/ peaks = {} THEN None
        ELSE Some(<<freqs[ClosestBin(peaks, expected_freq)], 1>>)

\* detect_ridges_centroid, one frame: tolerance 0.15
RidgeCentroid(spec, expected_freq) ==
    LET W == FreqMask(expected_freq, <<3, 20>>)
        linear_spectrum == [b \in 1 .. NBins |-> Linear(spec[b])]
        ones == [b \in 1 .. NBins |-> 1]
        total_energy == SumOver(W, linear_spectrum, ones)
    IN  IF W = {} THEN None
        ELSE IF total_energy > 0
             THEN Some(<<SumOver(W, freqs, linear_spectrum), total_energy>>)
             ELSE None

\* if 0 < peak_idx < len(local_spectrum) - 1
NotAtEdge(peak_bin, W) == (peak_bin - 1) \in W /\ (peak_bin + 1) \in W

\* detect_ridges_parabolic, one frame: tolerance 0.1; a zero denominator
\* gives nan or inf in numpy, written <<n, 0>>
RidgeParabolic(spec, expected_freq) ==
    LET W == FreqMask(expected_freq, <<1, 10>>)
        peak_bin == ArgMax(spec, W)
        y1 == spec[peak_bin - 1]
        y2 == spec[peak_bin]
        y3 == spec[peak_bin + 1]
        den == 2 * (2 * y2 - y1 - y3)
        freq_step == freqs[2] - freqs[1]
    IN  IF W = {} THEN None
        ELSE IF NotAtEdge(peak_bin, W)
             THEN Some(<<freqs[peak_bin] * den + (y3 - y1) * freq_step, den>>)
             ELSE None

\* detect_harmonic_ridges: dispatch on the method
RidgeSample(method, spec, expected_freq, prom, ptol) ==
    CASE method = "max" -> RidgeMax(spec, expected_freq)
      [] method = "peaks" -> RidgePeaks(spec, expected_freq, prom, ptol)
      [] method = "centroid" -> RidgeCentroid(spec, expected_freq)
      [] method = "parabolic" -> RidgeParabolic(spec, expected_freq)

\* one iteration of "for t_idx in range(self.S_db.shape[1])" for one line:
\* ridge.append((self.times[t_idx], frequency)) when the frame has a sample
RidgeStepEveryFrame(method, rdg, t, spec, expected_freq, prom, ptol) ==
    LET s == RidgeSample(method, spec, expected_freq, prom, ptol)
    IN  IF s = None
        THEN IF rdg = <<>> THEN rdg ELSE Append(rdg, rdg[Len(rdg)])
        ELSE Append(rdg, <<times[t], s[1]>>)
RidgeStepUntilMiss(method, rdg, t, spec, expected_freq, prom, ptol) ==
    LET s == RidgeSample(method, spec, expected_freq, prom, ptol)
    IN  IF s = None \/ Len(rdg) < t - 1
        THEN rdg ELSE Append(rdg, <<times[t], s[1]>>)
RidgeStep(method, rdg, t, spec, expected_freq, prom, ptol) ==
    LET s == RidgeSample(method, spec, expected_freq, prom, ptol)
    IN  IF s = None THEN rdg ELSE Append(rdg, <<times[t], s[1]>>)

\* if ridge: ridges[harm_num] = ridge
RidgesOf(lines, rdgs) ==
    LET kept == {i \in DOMAIN lines : rdgs[i] # <<>>}
    IN  [n \in {lines[i].num : i \in kept} |->
            rdgs[CHOOSE i \in kept : lines[i].num = n]]

MethodChoices == {"max", "peaks", "centroid", "parabolic"}
ProminenceChoices == {5, 15}
PeakToleranceChoices == {<<1, 10>>, <<1, 2>>}

\* H1 at a bin with H2 = 2 * F0 beyond the axis (add_harmonic), or H1 alone
\* between two bins (a dragged line)
LineChoices ==
    {<<[num |-> 1, freq |-> 1000], [num |-> 2, freq |-> 2000]>>,
     <<[num |-> 1, freq |-> 1050]>>}

LayerInit ==
    /\ harmonic_lines \in LineChoices
    /\ ridge_method \in MethodChoices
    /\ prominence \in ProminenceChoices
    /\ peak_tolerance \in PeakToleranceChoices
    /\ ridge_method # "peaks" => (prominence = 5 /\ peak_tolerance = <<1, 10>>)
    /\ harmonic_ridges = <<>>

LayerIdle ==
    /\ harmonic_lines = <<>>
    /\ ridge_method = "max"
    /\ prominence = 5
    /\ peak_tolerance = <<1, 10>>
    /\ harmonic_ridges = <<>>

TrackInit ==
    /\ t_idx = 0
    /\ spectrum = <<>>
    /\ ridge = [i \in DOMAIN harmonic_lines |-> <<>>]

TrackIdle ==
    /\ t_idx = 0
    /\ spectrum = <<>>
    /\ ridge = <<>>

\* one frame of detect_ridges_<method>, for every line: spectrum =
\* self.S_db[:, t_idx] and the search in it
TrackFrame ==
    /\ pc = "track"
    /\ t_idx < NFrames
    /\ \E col \in Columns :
          /\ spectrum' = col
          /\ ridge' = [i \in DOMAIN harmonic_lines |->
                          RidgeStep(ridge_method, ridge[i], t_idx + 1, col,
                                    harmonic_lines[i].freq, prominence,
                                    peak_tolerance)]
    /\ t_idx' = t_idx + 1
    /\ pc' = "sampled"
    /\ UNCHANGED <<layerVars, detectVars, pairVars, guiVars, contourVars, correctVars, valleyVars>>
    /\ UNCHANGED <<dragVars, templateVars>>

\* the loop goes on to the next frame; the column it read is dropped
NextFrame ==
    /\ pc = "sampled"
    /\ spectrum' = <<>>
    /\ pc' = "track"
    /\ UNCHANGED <<t_idx, ridge, layerVars, detectVars, pairVars, guiVars, contourVars, correctVars,
                   valleyVars>>
    /\ UNCHANGED <<dragVars, templateVars>>

\* return ridges; self.harmonic_ridges = self.detect_ridges_<method>()
ReturnRidges ==
    /\ pc = "track"
    /\ t_idx = NFrames
    /\ harmonic_ridges' = RidgesOf(harmonic_lines, ridge)
    /\ pc' = "done"
    /\ UNCHANGED <<harmonic_lines, ridge_method, prominence, peak_tolerance>>
    /\ UNCHANGED <<trackVars, detectVars, pairVars, guiVars, contourVars, correctVars, valleyVars>>
    /\ UNCHANGED <<dragVars, templateVars>>

(***************************************************************************)
(* Two runs of the tracker side by side, on the same lines and settings:   *)
(* the spectrogram of the second run is that of the first with the column  *)
(* of frame corrupt_idx replaced by another one.                           *)
(***************************************************************************)

\* the columns of the two spectrograms: every bin silent or loud
PairLevels == {0, 20}
PairColumns == [1 .. NBins -> PairLevels]

PairInit ==
    /\ corrupt_idx \in 1 .. NFrames
    /\ ridge_b = [i \in DOMAIN harmonic_lines |-> <<>>]

PairIdle ==
    /\ corrupt_idx = 0
    /\ ridge_b = <<>>

\* one frame of detect_ridges_<method> in both runs; the columns are read
\* and dropped
TrackFramePair ==
    /\ pc = "track"
    /\ t_idx < NFrames
    /\ \E col \in PairColumns :
        \E col_b \in (IF t_idx + 1 = corrupt_idx
                      THEN PairColumns \ {col} ELSE {col}) :
          /\ ridge' = [i \in DOMAIN harmonic_lines |->
                          RidgeStep(ridge_method, ridge[i], t_idx + 1, col,
                                    harmonic_lines[i].freq, prominence,
                                    peak_tolerance)]
          /\ ridge_b' = [i \in DOMAIN harmonic_lines |->
                          RidgeStep(ridge_method, ridge_b[i], t_idx + 1, col_b,
                                    harmonic_lines[i].freq, prominence,
                                    peak_tolerance)]
    /\ t_idx' = t_idx + 1
    /\ UNCHANGED <<spectrum, pc, layerVars, detectVars, corrupt_idx, guiVars, contourVars, correctVars,
                   valleyVars>>
    /\ UNCHANGED <<dragVars, templateVars>>

(***************************************************************************)
(* HarmonicLayer.compute_contours and its three smoothers.                 *)
(*                                                                         *)
(* A ridge is a sequence of <<time, frequency>>, the frequency a fraction  *)
(* <<num, den>>.  The smoothers are computed in exact rational arithmetic; *)
(* every result is a fraction in lowest terms with a positive denominator. *)
(* The smoothness slider runs from 1.0 to 20.0; it is kept in tenths.      *)
(***************************************************************************)

RECURSIVE GCD(_, _)
GCD(a, b) == IF b = 0 THEN a ELSE GCD(b, a % b)

\* a fraction in lowest terms, the denominator positive
FracNorm(f) ==
    LET g == GCD(Abs(f[1]), Abs(f[2]))
        sgn == IF f[2] < 0 THEN 0 - 1 ELSE 1
    IN  <<sgn * (f[1] \div g), sgn * (f[2] \div g)>>

FracAdd(f, g) == FracNorm(<<f[1] * g[2] + g[1] * f[2], f[2] * g[2]>>)
FracSub(f, g) == FracNorm(<<f[1] * g[2] - g[1] * f[2], f[2] * g[2]>>)
FracMul(f, g) == FracNorm(<<f[1] * g[1], f[2] * g[2]>>)
FracDiv(f, g) == FracNorm(<<f[1] * g[2], f[2] * g[1]>>)
FracLeq(f, g) == f[1] * g[2] <= g[1] * f[2]

RECURSIVE Tabulate(_, _)
\* the sequence <<f[1], ..., f[n]>>, every element computed once
Tabulate(n, f) ==
    IF n <= 0 THEN <<>> ELSE Append(Tabulate(n - 1, f), f[n])

\* the function f over 1 .. n as a sequence
AsSeq(f) == Tabulate(Cardinality(DOMAIN f), f)

RECURSIVE FracSumRange(_, _, _)
\* the sum of the fractions fs[lo], ..., fs[hi], by halves
FracSumRange(fs, lo, hi) ==
    IF lo > hi THEN <<0, 1>>
    ELSE IF lo = hi THEN FracNorm(fs[lo])
    ELSE LET mid == (lo + hi) \div 2
         IN  FracAdd(FracSumRange(fs, lo, mid), FracSumRange(fs, mid + 1, hi))

\* the sum of a sequence of fractions
FracSum(fs) == FracSumRange(fs, 1, Len(fs))

\* np.dot of two vectors of fractions
Dot(u, v) == FracSum(AsSeq([i \in DOMAIN u |-> FracMul(u[i], v[i])]))

\* int(self.contour_smoothness.get()): truncation
IntOfRounded(tenths) == (tenths + 5) \div 10
IntOf(tenths) == tenths \div 10

\* np.pad(freqs, (window // 2, window - 1 - window // 2), mode='edge'):
\* element i of the padded array, i from 1
PaddedWithZeros(fs, window, i) ==
    IF i - window \div 2 < 1 \/ i - window \div 2 > Len(fs)
    THEN <<0, 1>> ELSE fs[i - window \div 2]
Padded(fs, window, i) == fs[Max(1, Min(Len(fs), i - window \div 2))]

\* np.convolve(padded, np.ones(window) / window, mode='valid') of the array
\* without the padding: one value per full window
SmoothContourNoPad(fs, window) ==
    LET w == Max(1, window)
    IN  IF w = 1 \/ Len(fs) < 3 THEN fs
        ELSE AsSeq([j \in 1 .. Len(fs) - w + 1 |->
                FracDiv(FracSum(AsSeq([m \in 1 .. w |-> fs[j + m - 1]])),
                        <<w, 1>>)])

\* _smooth_contour(freqs, window)
SmoothContour(fs, window) ==
    LET w == Max(1, window)
    IN  IF w = 1 \/ Len(fs) < 3 THEN fs
        ELSE AsSeq([j \in 1 .. Len(fs) |->
                FracDiv(FracSum(AsSeq([m \in 1 .. w |->
                                          Padded(fs, w, j + m - 1)])),
                        <<w, 1>>)])

\* ts = times - times.mean()
Centered(ts) ==
    LET t0 == FracDiv(FracSum(AsSeq([i \in DOMAIN ts |-> <<ts[i], 1>>])),
                      <<Len(ts), 1>>)
    IN  AsSeq([i \in DOMAIN ts |-> FracSub(<<ts[i], 1>>, t0)])

RECURSIVE FracPow(_, _)
FracPow(f, k) == IF k = 0 THEN <<1, 1>> ELSE FracMul(f, FracPow(f, k - 1))

RECURSIVE Project(_, _)
\* the projection of the vector y on the span of the orthogonal vectors qs
Project(y, qs) ==
    IF qs = <<>> THEN AsSeq([i \in DOMAIN y |-> <<0, 1>>])
    ELSE LET q == Head(qs)
             c == FracDiv(Dot(y, q), Dot(q, q))
             rest == Project(y, Tail(qs))
         IN  AsSeq([i \in DOMAIN y |->
                       FracAdd(FracMul(c, q[i]), rest[i])])

RECURSIVE OrthoBasis(_, _)
\* an orthogonal basis of the polynomials of degree <= order sampled at ts
\* (Gram-Schmidt on 1, t, t^2, ...); a power that adds nothing is dropped
OrthoBasis(ts, order) ==
    IF order < 0 THEN <<>>
    ELSE LET prev == OrthoBasis(ts, order - 1)
             mono == AsSeq([i \in DOMAIN ts |-> FracPow(ts[i], order)])
             proj == Project(mono, prev)
             q == AsSeq([i \in DOMAIN ts |-> FracSub(mono[i], proj[i])])
         IN  IF \A i \in DOMAIN ts : q[i][1] = 0 THEN prev
             ELSE Append(prev, q)

\* np.poly1d(np.polyfit(ts, freqs, order))(ts): the least-squares
\* polynomial at the samples, which is the projection of freqs on the
\* polynomials of degree <= order
PolyFit(ts, fs, order) ==
    Project(AsSeq([i \in DOMAIN fs |-> FracNorm(fs[i])]),
            OrthoBasis(ts, order))

\* "if order_hint < 5: order = 1 elif order_hint < 10: order = 2 else 3"
PolyOrderAlwaysOne(order_hint) == 1
PolyOrder(order_hint) ==
    IF order_hint < 5 THEN 1 ELSE IF order_hint < 10 THEN 2 ELSE 3

\* np.polyfit raises LinAlgError when the SVD does not converge, which it
\* does on a sample that is not finite (written with denominator 0)
LinAlgError(fs) == \E i \in DOMAIN fs : fs[i][2] = 0

\* _polyfit_contour(times, freqs, order_hint)
PolyfitContour(ts, fs, order_hint) ==
    IF Len(ts) < 3 THEN fs
    ELSE IF LinAlgError(fs) THEN fs
    ELSE PolyFit(Centered(ts), fs, PolyOrder(order_hint))

\* _spline_contour(times, freqs, smooth_hint).  UnivariateSpline is cubic:
\* it raises on fewer than 4 samples (caught: the input is returned); on
\* more it starts from the least-squares cubic without interior knots and
\* returns it when its residual is within s.  That cubic passes through
\* 4 samples, so its residual is 0; no ridge of the model is longer.
SplineContour(ts, fs, smooth_hint) ==
    IF Len(ts) < 3 THEN fs
    ELSE IF Len(ts) < 4 \/ LinAlgError(fs) THEN fs
    ELSE PolyFit(Centered(ts), fs, 3)

ContourMethods == {"raw", "smooth", "poly", "spline"}

\* positions of the smoothness slider, in tenths: 1.0, 2.7, 5.0, 9.9, 20.0
SmoothnessChoices == {10, 27, 50, 99, 200}

\* the positions the slider is moved to in the panel: 2.7 and 5.0
SliderChoices == {27, 50}

\* compute_contours, one ridge: the contour frequencies
ContourFreqs(method, smoothness, ts, fs) ==
    CASE method = "raw" -> fs
      [] method = "smooth" -> SmoothContour(fs, IntOf(smoothness))
      [] method = "poly" -> PolyfitContour(ts, fs, IntOf(smoothness))
      [] method = "spline" -> SplineContour(ts, fs, IntOf(smoothness))
      [] OTHER -> fs

\* list(zip(times, contour_freqs)): zip stops at the shorter sequence
Zip(ts, cs) ==
    AsSeq([i \in 1 .. Min(Len(ts), Len(cs)) |-> <<ts[i], cs[i]>>])

\* compute_contours, one ridge
ContourOf(method, smoothness, rdg) ==
    LET ts == AsSeq([i \in DOMAIN rdg |-> rdg[i][1]])
        fs == AsSeq([i \in DOMAIN rdg |-> rdg[i][2]])
    IN  Zip(ts, ContourFreqs(method, smoothness, ts, fs))

\* compute_contours: the new value of self.harmonic_contours; an empty
\* ridge gets no contour
ComputeContours(rdgs, method, smoothness) ==
    [n \in {k \in DOMAIN rdgs : rdgs[k] # <<>>} |->
        ContourOf(method, smoothness, rdgs[n])]

\* the ridges given to compute_contours on its own: time in frames
Pt(t, f) == <<t, <<f, 1>>>>
RidgeChoices ==
    {<<>>,
     <<Pt(1, 1000)>>,
     <<Pt(1, 1000), Pt(2, 1100)>>,
     <<Pt(1, 1000), Pt(2, 1100), Pt(3, 900)>>,
     <<Pt(1, 1000), Pt(2, 1000), Pt(3, 1000)>>,
     <<Pt(1, 900), Pt(2, 1000), Pt(4, 1200)>>,
     <<Pt(1, 900), Pt(2, 1100), Pt(3, 1000), Pt(4, 1200)>>,
     <<Pt(1, 800), Pt(2, 1200), Pt(3, 1200), Pt(4, 900)>>}

ContourInit ==
    /\ show_contour = TRUE
    /\ contour_method \in ContourMethods
    /\ contour_smoothness \in SmoothnessChoices
    /\ harmonic_contours = <<>>

ContourIdle ==
    /\ show_contour = FALSE
    /\ contour_method = "raw"
    /\ contour_smoothness = 50
    /\ harmonic_contours = <<>>

(***************************************************************************)
(* HarmonicLayer: the handlers of the control panel.  One audio file is    *)
(* loaded in a session and it has no annotation file; its spectrogram is   *)
(* S_db, over the axis freqs, and S_db[t][b] is the level of bin b in      *)
(* frame t.                                                                *)
(***************************************************************************)

\* self.freq_min, self.freq_max: the band searched for F0
freq_min == 500
freq_max == 8000

\* masked_spectrum[~freq_mask] = -np.inf
MinusInf == 0 - 1000000

\* the harmonic numbers of the toggle buttons and of add / remove
MaxHarmonic == 3
HarmonicNumbers == 1 .. MaxHarmonic

\* the loaded spectrogram has three frames; its columns: a line at 1000 Hz,
\* a plateau from 900 to 1100 Hz, silence
LayerColumns == {<<0, 0, 20, 0, 0>>, <<0, 20, 20, 20, 0>>, <<0, 0, 0, 0, 0>>}
Spectrograms == LayerColumns \X LayerColumns \X LayerColumns

LayerMethodChoices == {"max", "peaks", "centroid"}

GuiInit ==
    /\ S_db = None
    /\ detected_f0 = None
    /\ show_ridges = TRUE
    /\ harmonic_lines = <<>>
    /\ ridge_method = "max"
    /\ prominence = 5
    /\ peak_tolerance = <<1, 10>>
    /\ harmonic_ridges = <<>>
    /\ ContourIdle

GuiIdle ==
    /\ S_db = None
    /\ detected_f0 = None
    /\ show_ridges = TRUE

RECURSIVE SumFrames(_, _, _)
\* the sum over the frames 1 .. t of bin b
SumFrames(S, b, t) == IF t = 0 THEN 0 ELSE S[t][b] + SumFrames(S, b, t - 1)

\* np.mean(self.S_db, axis=1) with the bins outside [freq_min, freq_max] at
\* -inf; kept as the sum over the frames, Len(S) times the mean
MaskedSpectrum(S) ==
    [b \in 1 .. NBins |->
        IF freqs[b] >= freq_min /\ freqs[b] <= freq_max
        THEN SumFrames(S, b, Len(S)) ELSE MinusInf * Len(S)]

\* distance=max(5, int(50 / (self.freqs[1] - self.freqs[0])))
PeakDistance == Max(5, 50 \div (freqs[2] - freqs[1]))

RECURSIVE SelectByDistance(_, _, _)
\* find_peaks(distance=...): the highest peak (the last of equals) is kept
\* and removes the peaks closer than dist to it, and so on downwards
SelectByDistance(P, spec, dist) ==
    IF P = {} THEN {}
    ELSE LET top == CHOOSE p \in P : \A q \in P :
                        spec[q] < spec[p] \/ (spec[q] = spec[p] /\ q <= p)
         IN  {top} \cup SelectByDistance({q \in P : Abs(q - top) >= dist},
                                         spec, dist)

\* find_peaks(masked_spectrum, prominence=..., distance=...): the distance
\* condition is applied before the prominence condition; masked holds
\* n_frames times the mean, and so the prominences
F0Peaks(masked, prom, n_frames) ==
    {pk \in SelectByDistance(LocalMaxima(masked, 1 .. NBins), masked,
                             PeakDistance) :
        PeakProminence(masked, 1 .. NBins, pk) >= prom * n_frames}

RECURSIVE RidgeUpTo(_, _, _, _, _, _)
\* the ridge of one line after the frames 1 .. t
RidgeUpTo(t, method, S, expected_freq, prom, ptol) ==
    IF t = 0 THEN <<>>
    ELSE RidgeStep(method,
                   RidgeUpTo(t - 1, method, S, expected_freq, prom, ptol),
                   t, S[t], expected_freq, prom, ptol)

\* detect_harmonic_ridges: the new value of self.harmonic_ridges
DetectHarmonicRidges(f0, S, lines, method, prom, ptol) ==
    IF f0 = None \/ S = None THEN harmonic_ridges
    ELSE RidgesOf(lines, [i \in DOMAIN lines |->
                     RidgeUpTo(Len(S), method, S, lines[i].freq, prom, ptol)])

\* "if self.show_contour.get(): self.compute_contours()" after the ridges
\* became rdgs
ContoursAfter(rdgs) ==
    IF show_contour
    THEN ComputeContours(rdgs, contour_method, contour_smoothness)
    ELSE harmonic_contours

\* detect_harmonic_ridges: the new value of self.harmonic_contours, rdgs
\* the ridges it detected
DetectHarmonicContours(f0, S, rdgs) ==
    IF f0 = None \/ S = None THEN harmonic_contours ELSE ContoursAfter(rdgs)

\* detect_f0 on the spectrogram S
DetectF0On(S) ==
    LET masked == MaskedSpectrum(S)
        peaks == F0Peaks(masked, prominence, Len(S))
        strongest_idx == ArgMax(masked, peaks)
        f0 == freqs[strongest_idx]
        lines == <<[num |-> 1, freq |-> f0]>>
        rdgs == DetectHarmonicRidges(Some(f0), S, lines, ridge_method,
                                     prominence, peak_tolerance)
    IN  IF peaks = {}
        THEN /\ detected_f0' = None
             /\ UNCHANGED <<harmonic_lines, harmonic_ridges,
                            harmonic_contours>>
        ELSE /\ detected_f0' = Some(f0)
             /\ harmonic_lines' = lines
             /\ harmonic_ridges' = IF show_ridges THEN rdgs ELSE harmonic_ridges
             /\ harmonic_contours' =
                   IF show_ridges
                   THEN DetectHarmonicContours(Some(f0), S, rdgs)
                   ELSE harmonic_contours

idleVars == <<detectVars, trackVars, pairVars, valleyVars, correctVars,
              templateVars, pc>>

\* load_current_file: compute_spectrogram, then process_audio -> detect_f0
LoadCurrentFileOf(files) ==
    /\ pc = "gui"
    /\ S_db = None
    /\ \E S \in files :
          /\ S_db' = S
          /\ DetectF0On(S)
    /\ UNCHANGED <<ridge_method, prominence, peak_tolerance, show_ridges,
                   show_contour, contour_method, contour_smoothness>>
    /\ UNCHANGED <<idleVars, dragVars>>
LoadCurrentFile == LoadCurrentFileOf(Spectrograms)

\* the "Detect F0" button
DetectF0 ==
    /\ pc = "gui"
    /\ S_db # None
    /\ DetectF0On(S_db)
    /\ UNCHANGED <<ridge_method, prominence, peak_tolerance, show_ridges, S_db,
                   show_contour, contour_method, contour_smoothness>>
    /\ UNCHANGED <<idleVars, dragVars>>

RECURSIVE SortByNum(_)
\* self.harmonic_lines.sort(key=lambda h: h['num']), numbers distinct
SortByNum(L) ==
    IF L = {} THEN <<>>
    ELSE LET h == CHOOSE x \in L : \A y \in L : x.num <= y.num
         IN  <<h>> \o SortByNum(L \ {h})

HasHarmonic(harm_num) ==
    \E i \in DOMAIN harmonic_lines : harmonic_lines[i].num = harm_num

\* add_harmonic(position)
AddHarmonic(position) ==
    /\ pc = "gui"
    /\ detected_f0 # None
    /\ ~HasHarmonic(position)
    /\ LET new_freq == detected_f0[1] * position
           lines == SortByNum({harmonic_lines[i] : i \in DOMAIN harmonic_lines}
                                \cup {[num |-> position, freq |-> new_freq]})
           rdgs == DetectHarmonicRidges(detected_f0, S_db, lines,
                                        ridge_method, prominence,
                                        peak_tolerance)
       IN  /\ harmonic_lines' = lines
           /\ harmonic_ridges' = IF show_ridges THEN rdgs ELSE harmonic_ridges
           /\ harmonic_contours' =
                 IF show_ridges
                 THEN DetectHarmonicContours(detected_f0, S_db, rdgs)
                 ELSE harmonic_contours
    /\ UNCHANGED <<ridge_method, prominence, peak_tolerance, guiVars,
                   show_contour, contour_method, contour_smoothness>>
    /\ UNCHANGED <<idleVars, dragVars>>

\* remove_harmonic(harm_num)
RemoveHarmonicAny(harm_num) ==
    /\ pc = "gui"
    /\ harmonic_lines' =
          SelectSeq(harmonic_lines, LAMBDA h : h.num # harm_num)
    /\ harmonic_ridges' =
          [n \in DOMAIN harmonic_ridges \ {harm_num} |-> harmonic_ridges[n]]
    /\ UNCHANGED <<ridge_method, prominence, peak_tolerance, guiVars,
                   contourVars>>
    /\ UNCHANGED <<idleVars, dragVars>>
RemoveHarmonic(harm_num) ==
    /\ pc = "gui"
    /\ harm_num # 1
    /\ harmonic_lines' =
          SelectSeq(harmonic_lines, LAMBDA h : h.num # harm_num)
    /\ harmonic_ridges' =
          [n \in DOMAIN harmonic_ridges \ {harm_num} |-> harmonic_ridges[n]]
    /\ UNCHANGED <<ridge_method, prominence, peak_tolerance, guiVars,
                   contourVars>>
    /\ UNCHANGED <<idleVars, dragVars>>

\* toggle_harmonic(harm_num): a toggle button
ToggleHarmonic(harm_num) ==
    /\ detected_f0 # None
    /\ \/ HasHarmonic(harm_num) /\ RemoveHarmonic(harm_num)
       \/ ~HasHarmonic(harm_num) /\ AddHarmonic(harm_num)

\* clear_all_harmonics, confirmed in the dialog
ClearAllHarmonics ==
    /\ pc = "gui"
    /\ Len(harmonic_lines) > 1
    /\ harmonic_lines' = SelectSeq(harmonic_lines, LAMBDA h : h.num = 1)
    /\ harmonic_ridges' =
          [n \in {1} |-> IF 1 \in DOMAIN harmonic_ridges
                         THEN harmonic_ridges[1] ELSE <<>>]
    /\ UNCHANGED <<ridge_method, prominence, peak_tolerance, guiVars,
                   contourVars>>
    /\ UNCHANGED <<idleVars, dragVars>>

\* the "Show Ridges" checkbox: update_display only
ToggleShowRidges ==
    /\ pc = "gui"
    /\ show_ridges' = ~show_ridges
    /\ UNCHANGED <<layerVars, S_db, detected_f0, contourVars>>
    /\ UNCHANGED <<idleVars, dragVars>>

\* on_ridge_method_change: a radio button of the ridge method
OnRidgeMethodChange ==
    /\ pc = "gui"
    /\ \E method \in LayerMethodChoices :
          LET rdgs == DetectHarmonicRidges(detected_f0, S_db, harmonic_lines,
                                           method, prominence, peak_tolerance)
          IN  /\ ridge_method' = method
              /\ harmonic_ridges' =
                    IF harmonic_lines # <<>> THEN rdgs ELSE harmonic_ridges
              /\ harmonic_contours' =
                    IF harmonic_lines # <<>> THEN ContoursAfter(rdgs)
                    ELSE harmonic_contours
    /\ UNCHANGED <<harmonic_lines, prominence, peak_tolerance, guiVars,
                   show_contour, contour_method, contour_smoothness>>
    /\ UNCHANGED <<idleVars, dragVars>>

\* on_prominence_change: the prominence slider
OnProminenceChange ==
    /\ pc = "gui"
    /\ \E value \in ProminenceChoices : prominence' = value
    /\ UNCHANGED <<harmonic_lines, ridge_method, peak_tolerance,
                   harmonic_ridges, guiVars, contourVars>>
    /\ UNCHANGED <<idleVars, dragVars>>

\* on_tolerance_change: the tolerance slider
OnToleranceChange ==
    /\ pc = "gui"
    /\ \E value \in PeakToleranceChoices :
          LET rdgs == DetectHarmonicRidges(detected_f0, S_db, harmonic_lines,
                                           ridge_method, prominence, value)
              redetect == ridge_method = "peaks" /\ harmonic_lines # <<>>
          IN  /\ peak_tolerance' = value
              /\ harmonic_ridges' =
                    IF redetect THEN rdgs ELSE harmonic_ridges
              /\ harmonic_contours' =
                    IF redetect THEN ContoursAfter(rdgs) ELSE harmonic_contours
    /\ UNCHANGED <<harmonic_lines, ridge_method, prominence, guiVars,
                   show_contour, contour_method, contour_smoothness>>
    /\ UNCHANGED <<idleVars, dragVars>>

\* on_show_contour_toggle: the "Show Contour" checkbox
OnShowContourToggle ==
    /\ pc = "gui"
    /\ show_contour' = ~show_contour
    /\ harmonic_contours' =
          IF show_contour'
          THEN ComputeContours(harmonic_ridges, contour_method,
                               contour_smoothness)
          ELSE harmonic_contours
    /\ UNCHANGED <<layerVars, guiVars, contour_method, contour_smoothness>>
    /\ UNCHANGED <<idleVars, dragVars>>

\* on_contour_method_change: a radio button of the contour method
OnContourMethodChangeKeep ==
    /\ pc = "gui"
    /\ \E method \in ContourMethods : contour_method' = method
    /\ UNCHANGED <<layerVars, guiVars, show_contour, contour_smoothness,
                   harmonic_contours>>
    /\ UNCHANGED <<idleVars, dragVars>>
OnContourMethodChange ==
    /\ pc = "gui"
    /\ \E method \in ContourMethods :
          /\ contour_method' = method
          /\ harmonic_contours' =
                IF show_contour
                THEN ComputeContours(harmonic_ridges, method,
                                     contour_smoothness)
                ELSE harmonic_contours
    /\ UNCHANGED <<layerVars, guiVars, show_contour, contour_smoothness>>
    /\ UNCHANGED <<idleVars, dragVars>>

\* on_contour_smoothness_change: the smoothness slider
OnContourSmoothnessChange ==
    /\ pc = "gui"
    /\ \E value \in SliderChoices :
          /\ contour_smoothness' = value
          /\ harmonic_contours' =
                IF show_contour
                THEN ComputeContours(harmonic_ridges, contour_method, value)
                ELSE harmonic_contours
    /\ UNCHANGED <<layerVars, guiVars, show_contour, contour_method>>
    /\ UNCHANGED <<idleVars, dragVars>>

(***************************************************************************)
(* HarmonicLayer: dragging a harmonic line                                 *)
(*                                                                         *)
(* selected_line refers to an entry of harmonic_lines; the numbers of the  *)
(* entries are distinct, and the entry is written by its number.           *)
(* Frequencies are whole numbers of Hz: a motion is drawn among the        *)
(* positions for which the scaling at the release keeps them whole.        *)
(***************************************************************************)

\* the files loaded where lines are dragged
DragSpectrograms ==
    {<<<<0, 0, 20, 0, 0>>, <<0, 0, 20, 0, 0>>, <<0, 0, 20, 0, 0>>>>,
     <<<<0, 0, 20, 0, 0>>, <<0, 20, 20, 20, 0>>, <<0, 0, 0, 0, 0>>>>,
     <<<<0, 20, 20, 20, 0>>, <<0, 20, 20, 20, 0>>, <<0, 20, 20, 20, 0>>>>}

\* event.ydata of a left click, and of a motion (Hz)
ClickChoices == {950, 1050, 2050}
MotionChoices == {900, 1001, 1100}

\* on_custom_press: the line closest to the click, closer than 100 Hz, the
\* first of the list among equally close ones; 0 when there is none
ClickedLine(lines, ydata) ==
    LET near == {i \in DOMAIN lines : Abs(ydata - lines[i].freq) < 100}
    IN  IF near = {} THEN 0
        ELSE SetMin({i \in near : \A j \in near :
                        Abs(ydata - lines[i].freq)
                            <= Abs(ydata - lines[j].freq)})

\* the entry selected_line refers to
SelectedIndex ==
    CHOOSE i \in DOMAIN harmonic_lines :
        harmonic_lines[i].num = selected_line[1]

\* on_custom_press with the left button on a line -> start_drag_line
OnCustomPress ==
    /\ pc = "gui"
    /\ \E ydata \in ClickChoices :
          LET i == ClickedLine(harmonic_lines, ydata)
          IN  /\ i # 0
              /\ selected_line' = Some(harmonic_lines[i].num)
              /\ drag_start_y' = Some(harmonic_lines[i].freq)
    /\ UNCHANGED <<layerVars, guiVars, contourVars>>
    /\ UNCHANGED idleVars

\* "ratio = new_freq / old_freq; h['freq'] *= ratio" of the other lines
ScaledLines(lines, selected, old_freq, new_freq) ==
    [i \in DOMAIN lines |->
        IF i = selected THEN lines[i]
        ELSE [lines[i] EXCEPT !.freq = (lines[i].freq * new_freq) \div old_freq]]

\* "if abs(new_freq - old_freq) > 1.0"
Moved(new_freq, old_freq) == Abs(new_freq - old_freq) > 1

\* a release at new_freq keeps every line at a whole frequency
WholeScaling(lines, selected, old_freq, new_freq) ==
    (lines[selected].num = 1 /\ Moved(new_freq, old_freq) /\ old_freq > 0)
        => \A i \in DOMAIN lines \ {selected} :
              (lines[i].freq * new_freq) % old_freq = 0

\* on_custom_motion with event.ydata on the axes
OnCustomMotion ==
    /\ pc = "gui"
    /\ selected_line # None
    /\ \E ydata \in MotionChoices :
          /\ WholeScaling(harmonic_lines, SelectedIndex, drag_start_y[1],
                          ydata)
          /\ harmonic_lines' =
                [harmonic_lines EXCEPT ![SelectedIndex].freq = ydata]
    /\ UNCHANGED <<ridge_method, prominence, peak_tolerance, harmonic_ridges,
                   guiVars, contourVars, dragVars>>
    /\ UNCHANGED idleVars

\* on_custom_release
OnCustomRelease ==
    /\ pc = "gui"
    /\ selected_line # None
    /\ LET old_freq == drag_start_y[1]
           new_freq == harmonic_lines[SelectedIndex].freq
           is_h1 == selected_line[1] = 1
           f0 == IF is_h1 THEN Some(new_freq) ELSE detected_f0
           lines == IF is_h1 /\ old_freq > 0
                    THEN ScaledLines(harmonic_lines, SelectedIndex,
                                     old_freq, new_freq)
                    ELSE harmonic_lines
           rdgs == IF show_ridges
                   THEN DetectHarmonicRidges(f0, S_db, lines, ridge_method,
                                             prominence, peak_tolerance)
                   ELSE harmonic_ridges
       IN  IF Moved(new_freq, old_freq)
           THEN /\ detected_f0' = f0
                /\ harmonic_lines' = lines
                /\ harmonic_ridges' = rdgs
                /\ harmonic_contours' = ContoursAfter(rdgs)
           ELSE UNCHANGED <<detected_f0, harmonic_lines, harmonic_ridges,
                            harmonic_contours>>
    /\ selected_line' = None
    /\ drag_start_y' = None
    /\ UNCHANGED <<ridge_method, prominence, peak_tolerance, S_db,
                   show_ridges, show_contour, contour_method,
                   contour_smoothness>>
    /\ UNCHANGED idleVars

\* "self.harmonic_contours = {}", the first statement of compute_contours
ResetContoursKeep(contours) == contours
ResetContours(contours) == <<>>

\* compute_contours on an object whose harmonic_contours is `previous`
ComputeContoursOver(previous, rdgs, method, smoothness) ==
    LET start == ResetContours(previous)
        fresh == ComputeContours(rdgs, method, smoothness)
    IN  [n \in DOMAIN start \cup DOMAIN fresh |->
            IF n \in DOMAIN fresh THEN fresh[n] ELSE start[n]]

\* the contours an earlier computation left: none, or those of other
\* ridges (of H3 too) under another method
PriorContours ==
    {<<>>,
     ComputeContours([n \in {1, 2, 3} |->
                         <<Pt(1, 900), Pt(2, 1100), Pt(3, 1000)>>],
                     "smooth", 50),
     ComputeContours([n \in {2} |-> <<Pt(1, 800), Pt(2, 1200)>>], "raw", 10)}

\* compute_contours called once ("recompute" -> "once") and once more with
\* the same ridges, method and smoothness ("once" -> "twice")
ComputeContoursRepeat ==
    /\ pc \in {"recompute", "once"}
    /\ harmonic_contours' =
          ComputeContoursOver(harmonic_contours, harmonic_ridges,
                              contour_method, contour_smoothness)
    /\ pc' = IF pc = "recompute" THEN "once" ELSE "twice"
    /\ UNCHANGED <<detectVars, layerVars, trackVars, pairVars, guiVars,
                   valleyVars, correctVars, show_contour, contour_method,
                   contour_smoothness>>
    /\ UNCHANGED <<dragVars, templateVars>>

\* compute_contours called on the ridges it is given
ComputeContoursCall ==
    /\ pc = "contour"
    /\ harmonic_contours' =
          ComputeContours(harmonic_ridges, contour_method, contour_smoothness)
    /\ pc' = "done"
    /\ UNCHANGED <<detectVars, layerVars, trackVars, pairVars, guiVars,
                   valleyVars, correctVars, show_contour, contour_method,
                   contour_smoothness>>
    /\ UNCHANGED <<dragVars, templateVars>>

(***************************************************************************)
(* FuzzyValley.find_valleys_between_harmonics                              *)
(*                                                                         *)
(* harmonic_tracks holds, per frame, the harmonics detected upstream:      *)
(* harmonic_number, actual_frequency (a bin frequency, or any frequency    *)
(* once the track was smoothed) and magnitude.  The frames are read in     *)
(* order; the model draws the detections and the log_magnitude column of   *)
(* a frame when the loop reaches it.  np.argmin of an empty slice raises   *)
(* ValueError, which ends the call without a result: pc = "raised".        *)
(***************************************************************************)

Det(n, f, m) == [harmonic_number |-> n, actual_frequency |-> f, magnitude |-> m]

\* the 'harmonics' of a frame: none, one, two far apart on bins or between
\* bins, two on adjacent bins, three, H2 missing, H2 below H1, two closer
\* than any min_gap
FrameChoices ==
    {<<>>,
     <<Det(1, 900, 20)>>,
     <<Det(1, 800, 20), Det(2, 1200, 10)>>,
     <<Det(1, 850, 20), Det(2, 1150, 10)>>,
     <<Det(1, 800, 20), Det(2, 900, 10)>>,
     <<Det(1, 800, 20), Det(2, 1000, 10), Det(3, 1200, 20)>>,
     <<Det(1, 800, 20), Det(3, 1200, 10)>>,
     <<Det(1, 1200, 20), Det(2, 800, 10)>>,
     <<Det(1, 1000, 20), Det(2, 1020, 10)>>}

\* log_magnitude[:, t_idx]: the bins between the outer two at 0 or 10
ValleyColumns ==
    {col \in [1 .. NBins -> {0, 10}] : col[1] = 0 /\ col[NBins] = 0}

ValleyMarginChoices == {<<0, 1>>, <<1, 4>>, <<1, 2>>}
MinGapChoices == {50, 150}

ValleyInit ==
    /\ valley_margin \in ValleyMarginChoices
    /\ min_gap \in MinGapChoices
    /\ frame_data = <<>>
    /\ valley_tracks = <<>>

ValleyIdle ==
    /\ valley_margin = <<0, 1>>
    /\ min_gap = 0
    /\ frame_data = <<>>
    /\ valley_tracks = <<>>

RECURSIVE SortByFrequency(_)
\* sorted(harmonics, key=lambda x: x['actual_frequency']): stable
SortByFrequency(hs) ==
    IF hs = <<>> THEN <<>>
    ELSE LET lowest == SetMin({hs[i].actual_frequency : i \in DOMAIN hs})
             first == SetMin({i \in DOMAIN hs : hs[i].actual_frequency = lowest})
         IN  <<hs[first]>>
               \o SortByFrequency([i \in 1 .. (Len(hs) - 1) |->
                                     IF i < first THEN hs[i] ELSE hs[i + 1]])

\* search_start_freq = h1_freq + margin and search_end_freq = h2_freq - margin,
\* margin = freq_gap * valley_margin; both times the denominator of margin
SearchStartFreqNoMargin(h1_freq, h2_freq, margin) == h1_freq * margin[2]
SearchStartFreq(h1_freq, h2_freq, margin) ==
    h1_freq * margin[2] + (h2_freq - h1_freq) * margin[1]
SearchEndFreq(h1_freq, h2_freq, margin) ==
    h2_freq * margin[2] - (h2_freq - h1_freq) * margin[1]

\* np.searchsorted(self.freqs, x / den): the number of bins below x / den
SearchSorted(x, den) == Cardinality({b \in 1 .. NBins : freqs[b] * den < x})

\* np.argmin(valley_spectrum) over the bins of the slice: the first minimum
ArgMin(col, W) ==
    SetMin({b \in W : \A c \in W : col[b] <= col[c]})

\* pair_key = f"H{h1['harmonic_number']}-H{h2['harmonic_number']}"
PairKey(h1, h2) == <<h1.harmonic_number, h2.harmonic_number>>

\* (h1['magnitude'] + h2['magnitude']) / 2 - valley_spectrum[valley_local_idx]
ValleyDepth(h1, h2, valley_mag) ==
    <<h1.magnitude + h2.magnitude - 2 * valley_mag, 2>>

\* valley_tracks[pair_key].append(valley_data)
AppendValley(tracks, pair_key, valley_data) ==
    [k \in DOMAIN tracks \cup {pair_key} |->
        IF k = pair_key
        THEN Append(IF k \in DOMAIN tracks THEN tracks[k] ELSE <<>>, valley_data)
        ELSE tracks[k]]

Raised == [raised |-> TRUE]

GapTooSmallNever(h1_freq, h2_freq, gap_min) == FALSE
\* if h2_freq - h1_freq < min_gap: continue
GapTooSmall(h1_freq, h2_freq, gap_min) == h2_freq - h1_freq < gap_min

RECURSIVE PairLoop(_, _, _, _, _, _, _)
\* "for i in range(len(harmonics_sorted) - 1)" from pair i on: the tracks
\* after the frame, or Raised
PairLoop(hs, i, tracks, col, t, margin, gap_min) ==
    IF i > Len(hs) - 1 THEN tracks
    ELSE
      LET h1 == hs[i]
          h2 == hs[i + 1]
          h1_freq == h1.actual_frequency
          h2_freq == h2.actual_frequency
          search_start_freq == SearchStartFreq(h1_freq, h2_freq, margin)
          search_end_freq == SearchEndFreq(h1_freq, h2_freq, margin)
          search_start_idx == SearchSorted(search_start_freq, margin[2])
          search_end_idx == SearchSorted(search_end_freq, margin[2])
          slice == (search_start_idx + 1) .. search_end_idx
          valley_bin == ArgMin(col, slice)
          valley_data ==
              [time |-> times[t],
               frequency |-> freqs[valley_bin],
               magnitude |-> col[valley_bin],
               freq_idx |-> valley_bin - 1,
               between_harmonics |-> <<h1_freq, h2_freq>>,
               harmonic_numbers |-> <<h1.harmonic_number, h2.harmonic_number>>,
               valley_depth |-> ValleyDepth(h1, h2, col[valley_bin])]
      IN  IF GapTooSmall(h1_freq, h2_freq, gap_min)
          THEN PairLoop(hs, i + 1, tracks, col, t, margin, gap_min)
          ELSE IF search_start_freq >= search_end_freq
          THEN PairLoop(hs, i + 1, tracks, col, t, margin, gap_min)
          ELSE IF slice = {}
          THEN Raised
          ELSE PairLoop(hs, i + 1,
                        AppendValley(tracks, PairKey(h1, h2), valley_data),
                        col, t, margin, gap_min)

\* one frame of "for t_idx, frame_data in enumerate(harmonic_tracks)"
FrameLoop(tracks, harmonics, col, t, margin, gap_min) ==
    IF Len(harmonics) < 2 THEN tracks
    ELSE PairLoop(SortByFrequency(harmonics), 1, tracks, col, t, margin, gap_min)

FindValleysFrame ==
    /\ pc = "valleys"
    /\ t_idx < NFrames
    /\ \E harmonics \in FrameChoices, col \in ValleyColumns :
          LET r == FrameLoop(valley_tracks, harmonics, col, t_idx + 1,
                             valley_margin, min_gap)
          IN  /\ frame_data' = harmonics
              /\ spectrum' = col
              /\ IF r = Raised
                 THEN pc' = "raised" /\ UNCHANGED valley_tracks
                 ELSE pc' = pc /\ valley_tracks' = r
    /\ t_idx' = t_idx + 1
    /\ UNCHANGED <<valley_margin, min_gap, ridge>>
    /\ UNCHANGED <<detectVars, layerVars, pairVars, guiVars, contourVars, correctVars>>
    /\ UNCHANGED <<dragVars, templateVars>>

\* return valley_tracks
ReturnValleys ==
    /\ pc = "valleys"
    /\ t_idx = NFrames
    /\ pc' = "done"
    /\ UNCHANGED <<detectVars, layerVars, trackVars, pairVars, guiVars, contourVars, correctVars,
                   valleyVars>>
    /\ UNCHANGED <<dragVars, templateVars>>

(***************************************************************************)
(* FuzzyValley.apply_learned_corrections                                   *)
(*                                                                         *)
(* harmonic_tracks is what track_harmonics_with_template returned: per     *)
(* frame the detections, none of them with the key 'model_corrected'       *)
(* (written model_corrected = FALSE).  The corrector model is outside this *)
(* repository: is_trained and the answers of predict_correction are        *)
(* inputs, and predictions is the record of the calls made to it.  The     *)
(* context patch of a call is read from log_magnitude and freqs.  The      *)
(* function returns None on both paths; the count is printed.              *)
(***************************************************************************)

\* a detection of a frame
Detection(n, expected, idx) ==
    [harmonic_number |-> n, expected_frequency |-> expected,
     actual_frequency |-> freqs[idx], magnitude |-> 20, freq_idx |-> idx,
     model_corrected |-> FALSE]

\* the 'harmonics' of a frame: H2 and H3 of 410 Hz, found at bins of freqs
TrackFrameChoices ==
    {<<>>, <<Detection(2, 820, 1)>>,
     <<Detection(2, 820, 1), Detection(3, 1230, 5)>>}

\* the shifts new_freq - old_freq the model answers with (Hz)
ShiftChoices == {0 - 6, 0, 5, 10}

CorrectInit ==
    /\ is_trained \in BOOLEAN
    /\ predictions = <<>>
    /\ log_magnitude \in {[t \in 1 .. NFrames |-> <<0, 10, 20, 10, 0>>],
                          [t \in 1 .. NFrames |-> <<0, 0, 0, 0, 0>>]}
    /\ harmonic_tracks \in
          {[t \in 1 .. NFrames |-> [time |-> times[t], harmonics |-> hs[t]]] :
              hs \in [1 .. NFrames -> TrackFrameChoices]}
    /\ tracks_on_entry = harmonic_tracks
    /\ n_done = 0
    /\ corrections_applied = None
    /\ reported = None

DragIdle ==
    /\ selected_line = None
    /\ drag_start_y = None

TemplateIdle ==
    /\ harmonic_series = <<>>
    /\ freq_tolerance = <<0, 1>>
    /\ curve_smoothing_window = 0

CorrectIdle ==
    /\ is_trained = FALSE
    /\ predictions = <<>>
    /\ log_magnitude = <<>>
    /\ harmonic_tracks = <<>>
    /\ tracks_on_entry = <<>>
    /\ n_done = 0
    /\ corrections_applied = None
    /\ reported = None

RECURSIVE PositionsFrom(_, _)
\* "for t_idx, frame_data in enumerate(self.harmonic_tracks): for harmonic
\* in frame_data['harmonics']": the detections in the order of the loops,
\* as <<frame, place in the frame>>
PositionsFrom(tracks, t) ==
    IF t > Len(tracks) THEN <<>>
    ELSE [i \in 1 .. Len(tracks[t].harmonics) |-> <<t, i>>]
             \o PositionsFrom(tracks, t + 1)
Positions(tracks) == PositionsFrom(tracks, 1)

\* spec_slice = self.log_magnitude[f_start:f_end, t_start:t_end]: the
\* frames and the bins of the context patch of a detection
ContextFrames(t) ==
    {u \in 1 .. Len(log_magnitude) : u >= t - 5 /\ u <= t + 5}
ContextBins(freq_idx) ==
    {b \in 1 .. NBins : b >= freq_idx - 20 /\ b <= freq_idx + 20}

\* "if abs(new_freq - old_freq) > 5"
SignificantAtLeast(new_freq, old_freq) == Abs(new_freq - old_freq) >= 5
Significant(new_freq, old_freq) == Abs(new_freq - old_freq) > 5

\* "harmonic['actual_frequency'] = new_freq; harmonic['model_corrected'] =
\* True"
CorrectedWithTarget(harmonic, new_freq) ==
    [harmonic EXCEPT !.actual_frequency = new_freq,
                     !.expected_frequency = new_freq,
                     !.model_corrected = TRUE]
Corrected(harmonic, new_freq) ==
    [harmonic EXCEPT !.actual_frequency = new_freq,
                     !.model_corrected = TRUE]

\* the untrained path: "Model not trained, skipping corrections"; return
ApplyUntrained ==
    /\ pc = "correct"
    /\ ~is_trained
    /\ pc' = "done"
    /\ UNCHANGED <<detectVars, layerVars, trackVars, pairVars, guiVars,
                   contourVars, valleyVars, correctVars>>
    /\ UNCHANGED <<dragVars, templateVars>>

\* the trained path: "corrections_applied = 0"
BeginCorrections ==
    /\ pc = "correct"
    /\ is_trained
    /\ corrections_applied' = Some(0)
    /\ pc' = "loop"
    /\ UNCHANGED <<detectVars, layerVars, trackVars, pairVars, guiVars,
                   contourVars, valleyVars, is_trained, predictions,
                   log_magnitude, harmonic_tracks, tracks_on_entry, n_done,
                   reported>>
    /\ UNCHANGED <<dragVars, templateVars>>

\* one iteration of the inner loop: the model is asked, the detection is
\* overwritten when the shift is significant
CorrectDetection ==
    /\ pc = "loop"
    /\ n_done < Len(Positions(harmonic_tracks))
    /\ LET pos == Positions(harmonic_tracks)[n_done + 1]
           harmonic == harmonic_tracks[pos[1]].harmonics[pos[2]]
           old_freq == harmonic.actual_frequency
       IN  \E shift \in ShiftChoices :
              LET new_freq == old_freq + shift
              IN  /\ predictions' =
                        Append(predictions,
                               [prior |-> old_freq, answer |-> new_freq,
                                frames |-> ContextFrames(pos[1]),
                                bins |-> ContextBins(harmonic.freq_idx)])
                  /\ IF Significant(new_freq, old_freq)
                     THEN /\ harmonic_tracks' =
                                [harmonic_tracks EXCEPT
                                    ![pos[1]].harmonics[pos[2]] =
                                        Corrected(harmonic, new_freq)]
                          /\ corrections_applied' =
                                Some(corrections_applied[1] + 1)
                     ELSE UNCHANGED <<harmonic_tracks, corrections_applied>>
    /\ n_done' = n_done + 1
    /\ UNCHANGED <<detectVars, layerVars, trackVars, pairVars, guiVars,
                   contourVars, valleyVars, is_trained, log_magnitude,
                   tracks_on_entry, reported, pc>>
    /\ UNCHANGED <<dragVars, templateVars>>

\* after the loops: print(f"Applied {corrections_applied} learned
\* corrections")
ReportCorrections ==
    /\ pc = "loop"
    /\ n_done = Len(Positions(harmonic_tracks))
    /\ reported' = corrections_applied
    /\ pc' = "done"
    /\ UNCHANGED <<detectVars, layerVars, trackVars, pairVars, guiVars,
                   contourVars, valleyVars, is_trained, predictions,
                   log_magnitude, harmonic_tracks, tracks_on_entry, n_done,
                   corrections_applied>>
    /\ UNCHANGED <<dragVars, templateVars>>

(***************************************************************************)
(* FuzzyValley.track_harmonics_with_template                               *)
(*                                                                         *)
(* The tracker reads the frames of log_magnitude in order and looks, for   *)
(* every entry of harmonic_series, for the strongest prominent peak within *)
(* freq_tolerance of it; then it smooths the trajectory of every harmonic  *)
(* with savgol_filter.  fmin, fmax and prominence_factor are at their      *)
(* defaults.  The model draws the column of a frame when the loop reaches  *)
(* it; frequencies are exact fractions.                                    *)
(***************************************************************************)

\* self.freqs of the tracker (Hz) and the number of frames
template_freqs == <<900, 925, 950, 975, 1000, 1025, 1050, 1075, 1100>>
NTemplateBins == Len(template_freqs)
NTemplateFrames == 5

\* a column with one peak at bin b
PeakAt(b) == [i \in 1 .. NTemplateBins |-> IF i = b THEN 20 ELSE 0]

\* log_magnitude[:, t_idx]: one peak low, in the middle or high in the
\* band, or no peak at all
TemplateColumns ==
    {AsSeq(PeakAt(2)), AsSeq(PeakAt(5)), AsSeq(PeakAt(8)), AsSeq(PeakAt(0))}

SeriesChoices == {<<1000>>, <<500, 1000>>}
FreqToleranceChoices == {<<1, 10>>, <<1, 20>>}
SmoothingWindowChoices == {1, 4, 5}

TemplateInit ==
    /\ harmonic_series \in SeriesChoices
    /\ freq_tolerance \in FreqToleranceChoices
    /\ curve_smoothing_window \in SmoothingWindowChoices

\* prominence_factor=0.05
prominence_factor == <<1, 20>>

SetMax(S) == CHOOSE x \in S : \A y \in S : y <= x

\* "if fmin is None: fmin = min(harmonic_series) * 0.8" and fmax likewise;
\* "if expected_freq < fmin or expected_freq > fmax: continue"
OutsideTemplateBand(series, expected_freq) ==
    LET lowest == SetMin({series[i] : i \in DOMAIN series})
        highest == SetMax({series[i] : i \in DOMAIN series})
    IN  expected_freq * 10 < lowest * 8 \/ expected_freq * 10 > highest * 12

\* freq_mask: the bins within expected_freq * freq_tolerance of
\* expected_freq, both ends included
TemplateMask(expected_freq, tol) ==
    {b \in 1 .. NTemplateBins :
        Abs(template_freqs[b] - expected_freq) * tol[2]
            <= expected_freq * tol[1]}

\* find_peaks(spectrum_slice, prominence=spectrum_range * prominence_factor)
\* when spectrum_range > 0
TemplatePeaks(spec, W) ==
    LET spectrum_range == SetMax({spec[b] : b \in W})
                              - SetMin({spec[b] : b \in W})
    IN  IF spectrum_range > 0
        THEN {pk \in LocalMaxima(spec, W) :
                 PeakProminence(spec, W, pk) * prominence_factor[2]
                     >= spectrum_range * prominence_factor[1]}
        ELSE {}

\* the detection of harmonic i in the column: none, or harmonic_data
TemplateDetection(spec, i, expected_freq, tol) ==
    LET W == TemplateMask(expected_freq, tol)
        peaks == IF W = {} THEN {} ELSE TemplatePeaks(spec, W)
        actual_freq_idx == ArgMax(spec, peaks)
    IN  IF peaks = {} THEN <<>>
        ELSE <<[harmonic_number |-> i,
                expected_frequency |-> expected_freq,
                actual_frequency |-> <<template_freqs[actual_freq_idx], 1>>,
                magnitude |-> spec[actual_freq_idx],
                freq_idx |-> actual_freq_idx]>>

RECURSIVE FrameHarmonicsFrom(_, _, _, _)
\* "for i, expected_freq in enumerate(harmonic_series)": the 'harmonics'
\* of one frame, from entry i of the series on
FrameHarmonicsFrom(spec, series, tol, i) ==
    IF i > Len(series) THEN <<>>
    ELSE (IF OutsideTemplateBand(series, series[i]) THEN <<>>
          ELSE TemplateDetection(spec, i, series[i], tol))
             \o FrameHarmonicsFrom(spec, series, tol, i + 1)
FrameHarmonics(spec, series, tol) == FrameHarmonicsFrom(spec, series, tol, 1)

\* one iteration of "for t_idx in range(self.magnitude.shape[1])"
TrackTemplateFrame ==
    /\ pc = "template"
    /\ Len(harmonic_tracks) < NTemplateFrames
    /\ \E col \in TemplateColumns :
          /\ log_magnitude' = Append(log_magnitude, col)
          /\ harmonic_tracks' =
                Append(harmonic_tracks,
                       [time |-> times[Len(harmonic_tracks) + 1],
                        harmonics |-> FrameHarmonics(col, harmonic_series,
                                                     freq_tolerance)])
    /\ UNCHANGED <<detectVars, layerVars, trackVars, pairVars, guiVars,
                   contourVars, valleyVars, dragVars, templateVars,
                   is_trained, predictions, tracks_on_entry, n_done,
                   corrections_applied, reported, pc>>

\* the place of harmonic harm_num among the 'harmonics' of a frame, 0 when
\* the frame has none
PlaceOf(frame, harm_num) ==
    LET places == {k \in DOMAIN frame.harmonics :
                      frame.harmonics[k].harmonic_number = harm_num}
    IN  IF places = {} THEN 0 ELSE SetMin(places)

RECURSIVE HarmIndicesFrom(_, _, _)
\* harm_indices: the frames where harm_num was detected, in order
HarmIndicesFrom(tracks, harm_num, t) ==
    IF t > Len(tracks) THEN <<>>
    ELSE (IF PlaceOf(tracks[t], harm_num) = 0 THEN <<>> ELSE <<t>>)
             \o HarmIndicesFrom(tracks, harm_num, t + 1)
HarmIndices(tracks, harm_num) == HarmIndicesFrom(tracks, harm_num, 1)

\* scipy.signal.savgol_filter(xs, window_length, polyorder, mode='interp'):
\* inside, the least-squares polynomial over the window around a sample,
\* at the sample; within half a window of an end, the polynomial over the
\* first (last) window_length samples, at the sample
SavgolFilter(xs, window_length, polyorder) ==
    LET half == window_length \div 2
        n == Len(xs)
        ts == AsSeq([i \in 1 .. window_length |-> <<i - half - 1, 1>>])
        first == PolyFit(ts, SubSeq(xs, 1, window_length), polyorder)
        last == PolyFit(ts, SubSeq(xs, n - window_length + 1, n), polyorder)
    IN  AsSeq([i \in 1 .. n |->
                 IF i <= half THEN first[i]
                 ELSE IF i > n - half THEN last[i - (n - window_length)]
                 ELSE PolyFit(ts, SubSeq(xs, i - half, i + half),
                              polyorder)[half + 1]])

\* "window_len = min(curve_smoothing_window, len(harm_freqs)); if
\* window_len % 2 == 0: window_len -= 1"
WindowLen(window, n) ==
    LET window_len == Min(window, n)
    IN  IF window_len % 2 = 0 THEN window_len - 1 ELSE window_len

\* harm_freqs_smooth when the trajectory is smoothed, harm_freqs otherwise
SmoothedFreqs(harm_freqs, window) ==
    IF Len(harm_freqs) >= window /\ WindowLen(window, Len(harm_freqs)) >= 3
    THEN SavgolFilter(harm_freqs, WindowLen(window, Len(harm_freqs)), 2)
    ELSE harm_freqs

\* the tracks with the trajectory of harm_num smoothed
SmoothHarmonic(tracks, harm_num, window) ==
    LET harm_indices == HarmIndices(tracks, harm_num)
        harm_freqs ==
            AsSeq([i \in DOMAIN harm_indices |->
                     tracks[harm_indices[i]]
                         .harmonics[PlaceOf(tracks[harm_indices[i]],
                                            harm_num)].actual_frequency])
        smooth == SmoothedFreqs(harm_freqs, window)
    IN  AsSeq([t \in DOMAIN tracks |->
                 IF PlaceOf(tracks[t], harm_num) = 0 THEN tracks[t]
                 ELSE LET i == CHOOSE j \in DOMAIN harm_indices :
                                   harm_indices[j] = t
                      IN  [tracks[t] EXCEPT
                              !.harmonics[PlaceOf(tracks[t], harm_num)]
                                  .actual_frequency = smooth[i]]])

RECURSIVE SmoothUpTo(_, _, _)
\* "for harm_num in range(1, len(harmonic_series) + 1)", up to harm_num
SmoothUpTo(tracks, harm_num, window) ==
    IF harm_num = 0 THEN tracks
    ELSE SmoothHarmonic(SmoothUpTo(tracks, harm_num - 1, window), harm_num,
                        window)

\* "if curve_smoothing_window >= 3: ..." and "return harmonic_tracks"
SmoothTrajectories ==
    /\ pc = "template"
    /\ Len(harmonic_tracks) = NTemplateFrames
    /\ harmonic_tracks' =
          IF curve_smoothing_window >= 3
          THEN SmoothUpTo(harmonic_tracks, Len(harmonic_series),
                          curve_smoothing_window)
          ELSE harmonic_tracks
    /\ pc' = "done"
    /\ UNCHANGED <<detectVars, layerVars, trackVars, pairVars, guiVars,
                   contourVars, valleyVars, dragVars, templateVars,
                   is_trained, predictions, log_magnitude, tracks_on_entry,
                   n_done, corrections_applied, reported>>

(***************************************************************************)
(* Specifications: one per routine; the variables of the other routines    *)
(* stay at their idle values.                                              *)
(***************************************************************************)

InitDetect ==
    /\ DetectInit /\ LayerIdle /\ TrackIdle /\ PairIdle /\ GuiIdle /\ ContourIdle
    /\ CorrectIdle /\ DragIdle /\ TemplateIdle /\ ValleyIdle
    /\ pc = "start"
NextDetect == DetectFundamental
SpecDetect == InitDetect /\ [][NextDetect]_vars

InitRidge ==
    /\ DetectIdle /\ LayerInit /\ TrackInit /\ PairIdle /\ GuiIdle /\ ContourIdle
    /\ CorrectIdle /\ DragIdle /\ TemplateIdle /\ ValleyIdle
    /\ pc = "track"
NextRidge == TrackFrame \/ NextFrame \/ ReturnRidges
SpecRidge == InitRidge /\ [][NextRidge]_vars

InitIndep ==
    /\ DetectIdle /\ LayerInit /\ TrackInit /\ PairInit /\ GuiIdle /\ ContourIdle
    /\ CorrectIdle /\ DragIdle /\ TemplateIdle /\ ValleyIdle
    /\ pc = "track"
NextIndep == TrackFramePair
SpecIndep == InitIndep /\ [][NextIndep]_vars

InitLayer ==
    /\ DetectIdle /\ GuiInit /\ TrackIdle /\ PairIdle /\ ValleyIdle
    /\ CorrectIdle /\ DragIdle /\ TemplateIdle
    /\ pc = "gui"
NextLayer ==
    \/ LoadCurrentFile
    \/ DetectF0
    \/ \E harm_num \in HarmonicNumbers : ToggleHarmonic(harm_num)
    \/ \E position \in HarmonicNumbers : AddHarmonic(position)
    \/ \E harm_num \in HarmonicNumbers : RemoveHarmonic(harm_num)
    \/ ClearAllHarmonics
    \/ ToggleShowRidges
    \/ OnRidgeMethodChange
    \/ OnProminenceChange
    \/ OnToleranceChange
SpecLayer == InitLayer /\ [][NextLayer]_vars

\* the handlers of the lines, of the ridge method and of the contour
\* controls; "Show Ridges", the prominence and the tolerance stay as
\* __init__ sets them
NextDisplay ==
    \/ LoadCurrentFile
    \/ DetectF0
    \/ \E harm_num \in HarmonicNumbers : ToggleHarmonic(harm_num)
    \/ ClearAllHarmonics
    \/ OnRidgeMethodChange
    \/ OnShowContourToggle
    \/ OnContourMethodChange
    \/ OnContourSmoothnessChange
SpecDisplay == InitLayer /\ [][NextDisplay]_vars

InitContour ==
    /\ DetectIdle /\ TrackIdle /\ PairIdle /\ GuiIdle /\ ValleyIdle
    /\ CorrectIdle /\ DragIdle /\ TemplateIdle
    /\ harmonic_lines = <<>>
    /\ ridge_method = "max"
    /\ prominence = 5
    /\ peak_tolerance = <<1, 10>>
    /\ harmonic_ridges \in [{1, 2} -> RidgeChoices]
    /\ ContourInit
    /\ pc = "contour"
NextContour == ComputeContoursCall
SpecContour == InitContour /\ [][NextContour]_vars

\* the handlers of the lines with the drags and the two display options; a
\* drag, once started, is finished before another handler runs
NextDrag ==
    \/ selected_line = None /\ LoadCurrentFileOf(DragSpectrograms)
    \/ selected_line = None /\ DetectF0
    \/ selected_line = None /\
          \E harm_num \in HarmonicNumbers : ToggleHarmonic(harm_num)
    \/ selected_line = None /\ ClearAllHarmonics
    \/ selected_line = None /\ ToggleShowRidges
    \/ selected_line = None /\ OnShowContourToggle
    \/ selected_line = None /\ OnCustomPress
    \/ OnCustomMotion
    \/ OnCustomRelease
SpecDrag == InitLayer /\ [][NextDrag]_vars

InitTemplate ==
    /\ DetectIdle /\ LayerIdle /\ TrackIdle /\ PairIdle /\ GuiIdle
    /\ ContourIdle /\ ValleyIdle /\ CorrectIdle /\ DragIdle /\ TemplateInit
    /\ pc = "template"
NextTemplate == TrackTemplateFrame \/ SmoothTrajectories
SpecTemplate == InitTemplate /\ [][NextTemplate]_vars

InitRecompute ==
    /\ DetectIdle /\ TrackIdle /\ PairIdle /\ GuiIdle /\ ValleyIdle
    /\ CorrectIdle /\ DragIdle /\ TemplateIdle
    /\ harmonic_lines = <<>>
    /\ ridge_method = "max"
    /\ prominence = 5
    /\ peak_tolerance = <<1, 10>>
    /\ harmonic_ridges \in [{1, 2} -> RidgeChoices]
    /\ show_contour = TRUE
    /\ contour_method \in ContourMethods
    /\ contour_smoothness \in SliderChoices
    /\ harmonic_contours \in PriorContours
    /\ pc = "recompute"
NextRecompute == ComputeContoursRepeat
SpecRecompute == InitRecompute /\ [][NextRecompute]_vars

InitCorrect ==
    /\ DetectIdle /\ LayerIdle /\ TrackIdle /\ PairIdle /\ GuiIdle /\ ContourIdle
    /\ ValleyIdle /\ CorrectInit /\ DragIdle /\ TemplateIdle
    /\ pc = "correct"
NextCorrect ==
    ApplyUntrained \/ BeginCorrections \/ CorrectDetection \/ ReportCorrections
SpecCorrect == InitCorrect /\ [][NextCorrect]_vars

InitValley ==
    /\ DetectIdle /\ LayerIdle /\ TrackIdle /\ PairIdle /\ GuiIdle /\ ContourIdle
    /\ CorrectIdle /\ DragIdle /\ TemplateIdle /\ ValleyInit
    /\ pc = "valleys"
NextValley == FindValleysFrame \/ ReturnValleys
SpecValley == InitValley /\ [][NextValley]_vars

\* one analysis pass, stage by stage: the tracker of the layer with its
\* handlers, the tracker's loop, the valley finder, the corrections
InitPass == InitLayer \/ InitRidge \/ InitValley \/ InitCorrect
NextPass == NextLayer \/ NextRidge \/ NextValley \/ NextCorrect
SpecPass == InitPass /\ [][NextPass]_vars


(***************************************************************************)
(* Claims about the fundamental detector (specification SpecDetect)        *)
(***************************************************************************)

\* the candidates evaluated: the MaxCandidates lowest detected peaks
LowestPeaks == {p \in peak_freqs : Cardinality({q \in peak_freqs : q < p}) < MaxCandidates}

\* k is a harmonic number tried for candidate c, and a detected peak lies
\* strictly within c * tolerance of k * c
MemberFound(c, k) ==
    /\ k \in 2 .. max_harmonics
    /\ k * c <= fmax
    /\ \E p \in peak_freqs :
          Abs(p - k * c) * harmonic_tolerance[2] < c * harmonic_tolerance[1]

\* number of series members found for candidate c, c included
SeriesScore(c) == 1 + Cardinality({k \in 2 .. max_harmonics : MemberFound(c, k)})

\* C1: at most the 10 lowest-frequency peaks are candidates, a candidate's
\* score is the number of series members found (itself included), the
\* returned candidate has the highest score among them and is the lowest
\* frequency among the candidates of that score.
C1_BestCandidate ==
    (pc = "done" /\ peak_freqs # {}) =>
        /\ best_fundamental # None
        /\ best_fundamental[1] \in LowestPeaks
        /\ Cardinality(LowestPeaks) <= 10
        /\ Len(best_harmonic_series) = SeriesScore(best_fundamental[1])
        /\ \A c \in LowestPeaks :
              /\ SeriesScore(c) <= SeriesScore(best_fundamental[1])
              /\ SeriesScore(c) = SeriesScore(best_fundamental[1])
                    => best_fundamental[1] <= c

\* C1 witness: more than 10 peaks, a peak beyond the 10 lowest that scores
\* higher than the returned one, and a tie for the best score among the 10.
C1_Witness ==
    /\ pc = "done"
    /\ Cardinality(peak_freqs) > 10
    /\ best_fundamental # None
    /\ \E p \in peak_freqs \ LowestPeaks :
          SeriesScore(p) > SeriesScore(best_fundamental[1])
    /\ \E c \in LowestPeaks :
          /\ c # best_fundamental[1]
          /\ SeriesScore(c) = SeriesScore(best_fundamental[1])

\* e is a detected peak at minimal distance from k * f0, within f0 * tolerance
ClosestWithin(e, f0, k) ==
    /\ k * f0 <= fmax
    /\ e \in peak_freqs
    /\ \A p \in peak_freqs : Abs(e - k * f0) <= Abs(p - k * f0)
    /\ Abs(e - k * f0) * harmonic_tolerance[2] <= f0 * harmonic_tolerance[1]

RECURSIVE EntriesMatch(_, _)
\* entries i.. of the series belong to increasing harmonic numbers >= kmin
EntriesMatch(i, kmin) ==
    \/ i > Len(best_harmonic_series)
    \/ \E k \in kmin .. max_harmonics :
          /\ ClosestWithin(best_harmonic_series[i], best_fundamental[1], k)
          /\ EntriesMatch(i + 1, k + 1)

\* C2: the first entry of the returned series is F0; every later entry is,
\* for its own harmonic number k in 2..max_harmonics with k*F0 <= fmax, the
\* detected peak closest to k*F0, within F0*tolerance of it; so the series
\* has at most max_harmonics entries.
C2_SeriesMembers ==
    (pc = "done" /\ best_fundamental # None) =>
        /\ best_harmonic_series[1] = best_fundamental[1]
        /\ EntriesMatch(2, 2)
        /\ Len(best_harmonic_series) <= max_harmonics

\* C2 witness: a series with a later entry that is not a pure multiple, a
\* harmonic number in range that contributed no entry, and a harmonic number
\* with two detected peaks inside the tolerance band.
C2_Witness ==
    /\ pc = "done"
    /\ best_fundamental # None
    /\ Len(best_harmonic_series) >= 2
    /\ \E i \in 2 .. Len(best_harmonic_series) :
          \A k \in 2 .. max_harmonics :
              best_harmonic_series[i] # k * best_fundamental[1]
    /\ \E k \in 2 .. max_harmonics :
          k * best_fundamental[1] <= fmax /\ ~MemberFound(best_fundamental[1], k)
    /\ \E k \in 2 .. max_harmonics : \E p, q \in peak_freqs :
          /\ p # q
          /\ k * best_fundamental[1] <= fmax
          /\ Abs(p - k * best_fundamental[1]) * harmonic_tolerance[2]
                < best_fundamental[1] * harmonic_tolerance[1]
          /\ Abs(q - k * best_fundamental[1]) * harmonic_tolerance[2]
                < best_fundamental[1] * harmonic_tolerance[1]

MethodTolerance ==
    CASE ridge_method = "max" -> <<1, 10>>
      [] ridge_method = "parabolic" -> <<1, 10>>
      [] ridge_method = "centroid" -> <<3, 20>>
      [] ridge_method = "peaks" -> peak_tolerance

\* bin b lies in [e - e*tol, e + e*tol]
BinInWindow(b, e, tol) == Abs(freqs[b] - e) * tol[2] <= e * tol[1]

SearchWindow(e) == {b \in 1 .. NBins : BinInWindow(b, e, MethodTolerance)}

\* the sample line i got for the frame just processed: <<>> or <<f>>
SampleAt(i) ==
    IF ridge[i] # <<>> /\ ridge[i][Len(ridge[i])][1] = times[t_idx]
    THEN Some(ridge[i][Len(ridge[i])][2])
    ELSE None

\* C4: for every harmonic and frame with a non-empty window, "max" emits the
\* frequency of a bin of maximum magnitude in the window, and "peaks" emits
\* the detected (prominent) local maximum closest to the expected frequency,
\* and nothing when the window holds no such local maximum.
C4_MaxAndPeaks ==
    pc = "sampled" =>
        \A i \in DOMAIN harmonic_lines :
            LET e == harmonic_lines[i].freq
                W == SearchWindow(e)
                P == FindPeaks(spectrum, W, prominence)
            IN  /\ (ridge_method = "max" /\ W # {}) =>
                      \E b \in W :
                          /\ \A c \in W : spectrum[c] <= spectrum[b]
                          /\ SampleAt(i) = Some(<<freqs[b], 1>>)
                /\ (ridge_method = "peaks" /\ W # {} /\ P = {}) =>
                      SampleAt(i) = None
                /\ (ridge_method = "peaks" /\ W # {} /\ P # {}) =>
                      \E b \in P :
                          /\ \A c \in P : Abs(freqs[b] - e) <= Abs(freqs[c] - e)
                          /\ SampleAt(i) = Some(<<freqs[b], 1>>)

\* C4 witness: "peaks" found two prominent local maxima in the window and
\* emitted the one closer to the expected frequency, which is not the first.
C4_Witness ==
    /\ pc = "sampled"
    /\ ridge_method = "peaks"
    /\ \E i \in DOMAIN harmonic_lines :
          LET P == FindPeaks(spectrum, SearchWindow(harmonic_lines[i].freq),
                             prominence)
          IN  /\ Cardinality(P) >= 2
              /\ SampleAt(i) # None
              /\ SampleAt(i) # Some(<<freqs[SetMin(P)], 1>>)

\* the rational f = <<n, d>> lies in [e - e*tol, e + e*tol]
FreqInWindow(f, e, tol) ==
    /\ f[2] > 0
    /\ f[1] * tol[2] >= e * (tol[2] - tol[1]) * f[2]
    /\ f[1] * tol[2] <= e * (tol[2] + tol[1]) * f[2]

\* C5: with each of the four methods every emitted sample lies inside the
\* search window [expected - tol, expected + tol], tol = expected frequency
\* times the tolerance fraction, for every harmonic and every frame.
C5_SampleInWindow ==
    pc = "sampled" =>
        \A i \in DOMAIN harmonic_lines :
            SampleAt(i) # None =>
                FreqInWindow(SampleAt(i)[1], harmonic_lines[i].freq,
                             MethodTolerance)

\* C5 witness: "parabolic" emitted an interpolated frequency that is not the
\* frequency of a bin.
C5_Witness ==
    /\ pc = "sampled"
    /\ ridge_method = "parabolic"
    /\ \E i \in DOMAIN harmonic_lines :
          /\ SampleAt(i) # None
          /\ \A b \in 1 .. NBins :
                SampleAt(i)[1][1] # freqs[b] * SampleAt(i)[1][2]

\* C6: with "parabolic", when the maximum bin of a non-empty window is the
\* first or the last bin of the window, the frame still gets a sample, at the
\* un-interpolated frequency of that bin.
C6_EdgeFallback ==
    (pc = "sampled" /\ ridge_method = "parabolic") =>
        \A i \in DOMAIN harmonic_lines :
            LET W == SearchWindow(harmonic_lines[i].freq)
                m == SetMin({b \in W : \A c \in W : spectrum[c] <= spectrum[b]})
            IN  (W # {} /\ (m = SetMin(W) \/ \A c \in W : c <= m)) =>
                    /\ SampleAt(i) # None
                    /\ SampleAt(i)[1][2] > 0
                    /\ SampleAt(i)[1][1] = freqs[m] * SampleAt(i)[1][2]


(***************************************************************************)
(* Claims about frame independence (specification SpecIndep)               *)
(***************************************************************************)

\* the samples of a ridge at frame j: none or one
SamplesAt(rdg, j) == {rdg[n] : n \in {m \in DOMAIN rdg : rdg[m][1] = times[j]}}

\* C7: two spectrograms that differ only in frame corrupt_idx give, for
\* every harmonic and every other frame, the same sample or the same
\* absence of a sample; and a frame after corrupt_idx that has a sample in
\* one run has it in the other, whether or not corrupt_idx got a sample.
C7_FrameIndependent ==
    \A i \in DOMAIN harmonic_lines : \A j \in 1 .. t_idx :
        /\ j # corrupt_idx =>
              SamplesAt(ridge[i], j) = SamplesAt(ridge_b[i], j)
        /\ (j = corrupt_idx + 1 /\ SamplesAt(ridge_b[i], corrupt_idx) = {}) =>
              (SamplesAt(ridge[i], j) # {} => SamplesAt(ridge_b[i], j) # {})

\* the changed frame has a sample in the first run and none in the second,
\* and the frame after it has the same sample in both
C7_Witness ==
    /\ corrupt_idx >= 1
    /\ t_idx > corrupt_idx
    /\ \E i \in DOMAIN harmonic_lines :
          /\ SamplesAt(ridge[i], corrupt_idx) # {}
          /\ SamplesAt(ridge_b[i], corrupt_idx) = {}
          /\ SamplesAt(ridge[i], corrupt_idx + 1) # {}
          /\ SamplesAt(ridge_b[i], corrupt_idx + 1)
                = SamplesAt(ridge[i], corrupt_idx + 1)


(***************************************************************************)
(* Claims about the ridge set (specifications SpecRidge and SpecLayer)     *)
(***************************************************************************)

\* C8: a harmonic without a sample in any frame is not a key of the ridge
\* set: no key of harmonic_ridges maps to an empty track.
C8_NoEmptyTrack ==
    \A n \in DOMAIN harmonic_ridges : harmonic_ridges[n] # <<>>


(***************************************************************************)
(* Claims about the valley search (specification SpecValley)               *)
(***************************************************************************)

\* every valley recorded so far
Valleys ==
    {valley_tracks[k][n] : <<k, n>> \in
        {kn \in (DOMAIN valley_tracks) \X (1 .. NFrames) :
            kn[2] \in DOMAIN valley_tracks[kn[1]]}}

\* f lies in [h1 + gap * margin, h2 - gap * margin], gap = h2 - h1
InCentralBand(f, h1_freq, h2_freq) ==
    /\ f * valley_margin[2] >=
          h1_freq * valley_margin[2] + (h2_freq - h1_freq) * valley_margin[1]
    /\ f * valley_margin[2] <=
          h2_freq * valley_margin[2] - (h2_freq - h1_freq) * valley_margin[1]

\* C9 as stated: every valley lies in the central band of its pair and is
\* equal to neither bounding harmonic frequency.
C9_ValleyInBand ==
    \A v \in Valleys :
        /\ InCentralBand(v.frequency, v.between_harmonics[1],
                         v.between_harmonics[2])
        /\ v.frequency # v.between_harmonics[1]
        /\ v.frequency # v.between_harmonics[2]

\* C9, amended: every valley lies in the central band of its pair and is
\* never equal to the upper bounding frequency; it is not equal to the lower
\* bounding frequency when the margin is positive.
C9_ValleyInBandPositiveMargin ==
    \A v \in Valleys :
        /\ InCentralBand(v.frequency, v.between_harmonics[1],
                         v.between_harmonics[2])
        /\ v.frequency # v.between_harmonics[2]
        /\ valley_margin[1] > 0 => v.frequency # v.between_harmonics[1]

\* with a positive margin, a valley on the lower edge of its band
C9_Witness ==
    /\ valley_margin[1] > 0
    /\ \E v \in Valleys :
          v.frequency * valley_margin[2] =
              SearchStartFreq(v.between_harmonics[1], v.between_harmonics[2],
                              valley_margin)

\* the harmonic of the frame just processed with the given number
HarmonicOf(harm_num) ==
    frame_data[CHOOSE i \in DOMAIN frame_data :
                  frame_data[i].harmonic_number = harm_num]

\* C10: a valley of the frame just processed is at a bin with the lowest
\* log-magnitude of all bins of the frame inside the central band, its
\* magnitude is that bin's, and its depth is the mean of the two harmonic
\* magnitudes minus the valley magnitude.
C10_ValleyIsMinimum ==
    \A v \in Valleys :
        (t_idx >= 1 /\ spectrum # <<>> /\ v.time = times[t_idx]) =>
            LET h1 == HarmonicOf(v.harmonic_numbers[1])
                h2 == HarmonicOf(v.harmonic_numbers[2])
            IN  /\ \A b \in 1 .. NBins :
                      InCentralBand(freqs[b], v.between_harmonics[1],
                                    v.between_harmonics[2])
                          => v.magnitude <= spectrum[b]
                /\ v.frequency = freqs[v.freq_idx + 1]
                /\ v.magnitude = spectrum[v.freq_idx + 1]
                /\ v.valley_depth[1] * 2 =
                      (h1.magnitude + h2.magnitude - 2 * v.magnitude)
                          * v.valley_depth[2]


\* C11: a pair whose residual band is degenerate or holds no frequency bin
\* is skipped without a fault: the search never ends by raising, whatever
\* the detections of a frame.
C11_NoFault == pc # "raised"


\* the valleys recorded for the frame just processed
FrameValleys == {v \in Valleys : t_idx >= 1 /\ v.time = times[t_idx]}

\* h is a detection of the frame just processed
Detected(h) == \E i \in DOMAIN frame_data : frame_data[i] = h

\* C12: a valley of a frame lies between two detections of that frame with
\* no detection strictly between them in frequency, at least min_gap apart;
\* a frame with fewer than two detections has no valley.
C12_AdjacentAndSeparated ==
    /\ \A v \in Valleys :
          v.between_harmonics[2] - v.between_harmonics[1] >= min_gap
    /\ \A v \in FrameValleys :
          /\ \E h1, h2 \in {frame_data[i] : i \in DOMAIN frame_data} :
                /\ h1.harmonic_number = v.harmonic_numbers[1]
                /\ h2.harmonic_number = v.harmonic_numbers[2]
                /\ h1.actual_frequency = v.between_harmonics[1]
                /\ h2.actual_frequency = v.between_harmonics[2]
          /\ ~\E i \in DOMAIN frame_data :
                /\ frame_data[i].actual_frequency > v.between_harmonics[1]
                /\ frame_data[i].actual_frequency < v.between_harmonics[2]
    /\ Len(frame_data) < 2 => FrameValleys = {}

\* a first frame gave a valley; the second frame has two detections closer
\* than min_gap and gives none
C12_Witness ==
    /\ t_idx = 2
    /\ pc = "valleys"
    /\ \E v \in Valleys : v.time = times[1]
    /\ Len(frame_data) = 2
    /\ Abs(frame_data[2].actual_frequency - frame_data[1].actual_frequency)
          < min_gap
    /\ FrameValleys = {}


\* C13: the valleys between two harmonics are in one single track, whichever
\* of the two is lower in a frame (no two tracks for the same unordered pair
\* of harmonic numbers), every valley is in the track of its own pair, and a
\* track has at most one valley per frame, in frame order.
C13_UnorderedGrouping ==
    /\ \A k1, k2 \in DOMAIN valley_tracks :
          {k1[1], k1[2]} = {k2[1], k2[2]} => k1 = k2
    /\ \A k \in DOMAIN valley_tracks : \A n \in DOMAIN valley_tracks[k] :
          /\ {valley_tracks[k][n].harmonic_numbers[1],
              valley_tracks[k][n].harmonic_numbers[2]} = {k[1], k[2]}
          /\ n > 1 => valley_tracks[k][n - 1].time < valley_tracks[k][n].time

(***************************************************************************)
(* Contours (SpecContour, SpecDisplay)                                     *)
(***************************************************************************)

\* the times and the frequencies of a ridge or of a contour
TimesOf(rdg) == AsSeq([i \in DOMAIN rdg |-> rdg[i][1]])
FreqsOf(rdg) == AsSeq([i \in DOMAIN rdg |-> rdg[i][2]])

\* C14: for every contour method and every smoothness, the contour of a
\* harmonic has the length of its source ridge and the same timestamps in
\* the same order; the moving average returns as many values as it was
\* given for every window length, windows longer than the track included.
C14_ContourAligned ==
    /\ \A n \in DOMAIN harmonic_contours :
          /\ n \in DOMAIN harmonic_ridges
          /\ Len(harmonic_contours[n]) = Len(harmonic_ridges[n])
          /\ TimesOf(harmonic_contours[n]) = TimesOf(harmonic_ridges[n])
    /\ \A n \in DOMAIN harmonic_ridges :
          Len(SmoothContour(FreqsOf(harmonic_ridges[n]),
                            IntOf(contour_smoothness)))
             = Len(harmonic_ridges[n])

\* a moving average over a window of 20 on a track of 4 samples, which it
\* changed
C14_Witness ==
    /\ pc = "done"
    /\ contour_method = "smooth"
    /\ IntOf(contour_smoothness) = 20
    /\ 1 \in DOMAIN harmonic_contours
    /\ Len(harmonic_contours[1]) = 4
    /\ harmonic_contours[1] # harmonic_ridges[1]

\* Python round(): to the nearest integer, a half to the even one
Round(tenths) ==
    LET q == tenths \div 10
        r == tenths % 10
    IN  IF r < 5 THEN q
        ELSE IF r > 5 THEN q + 1
        ELSE IF q % 2 = 0 THEN q ELSE q + 1

\* the contours stored for method 'smooth' are the moving averages over
\* the window
SmoothedOver(window) ==
    (pc = "done" /\ contour_method = "smooth") =>
        \A n \in DOMAIN harmonic_ridges :
            harmonic_ridges[n] # <<>> =>
                /\ n \in DOMAIN harmonic_contours
                /\ FreqsOf(harmonic_contours[n]) =
                      IF window <= 1 \/ Len(harmonic_ridges[n]) < 3
                      THEN FreqsOf(harmonic_ridges[n])
                      ELSE SmoothContour(FreqsOf(harmonic_ridges[n]), window)

\* C15: with method 'smooth' the window of the moving average is
\* max(1, round(smoothness)) for every smoothness, and the track is
\* returned unmodified when the window is <= 1 or the track has fewer
\* than 3 samples.
C15_WindowRounded == SmoothedOver(Max(1, Round(contour_smoothness)))

\* C15, amended: the window is max(1, int(smoothness)), the smoothness
\* truncated, not rounded.
C15_WindowTruncated == SmoothedOver(Max(1, contour_smoothness \div 10))

\* smoothness 2.7 on a track of 3 samples: a window of 2 changed it
C15_Witness ==
    /\ pc = "done"
    /\ contour_method = "smooth"
    /\ contour_smoothness = 27
    /\ 1 \in DOMAIN harmonic_contours
    /\ Len(harmonic_ridges[1]) = 3
    /\ FreqsOf(harmonic_contours[1]) # FreqsOf(harmonic_ridges[1])

\* the order the claim gives for a smoothness (in tenths)
ClaimedOrder(tenths) ==
    IF tenths < 50 THEN 1 ELSE IF tenths < 100 THEN 2 ELSE 3

\* C16: with method 'poly' the order of the polynomial is 1 when
\* smoothness < 5, 2 when 5 <= smoothness < 10 and 3 otherwise; a track of
\* fewer than 3 samples yields the input frequencies unchanged.
C16_PolyOrder ==
    (pc = "done" /\ contour_method = "poly") =>
        \A n \in DOMAIN harmonic_ridges :
            harmonic_ridges[n] # <<>> =>
                /\ n \in DOMAIN harmonic_contours
                /\ FreqsOf(harmonic_contours[n]) =
                      IF Len(harmonic_ridges[n]) < 3
                      THEN FreqsOf(harmonic_ridges[n])
                      ELSE PolyFit(Centered(TimesOf(harmonic_ridges[n])),
                                   FreqsOf(harmonic_ridges[n]),
                                   ClaimedOrder(contour_smoothness))

\* smoothness 9.9 on a track of 4 samples: the fit of order 2, which is
\* neither the line nor the track itself
C16_Witness ==
    /\ pc = "done"
    /\ contour_method = "poly"
    /\ contour_smoothness = 99
    /\ 1 \in DOMAIN harmonic_contours
    /\ Len(harmonic_ridges[1]) = 4
    /\ FreqsOf(harmonic_contours[1]) # FreqsOf(harmonic_ridges[1])
    /\ FreqsOf(harmonic_contours[1]) #
          PolyFit(Centered(TimesOf(harmonic_ridges[1])),
                  FreqsOf(harmonic_ridges[1]), 1)
    /\ 2 \in DOMAIN harmonic_contours
    /\ Len(harmonic_ridges[2]) = 2
    /\ harmonic_contours[2] = harmonic_ridges[2]

\* the contour in contours of every harmonic that has ridge samples in
\* rdgs is the result of the method and the smoothness on its ridge
ContoursCurrentFor(rdgs, method, smoothness, contours) ==
    \A n \in DOMAIN rdgs :
        rdgs[n] # <<>> =>
            /\ n \in DOMAIN contours
            /\ contours[n] = ContourOf(method, smoothness, rdgs[n])

ContoursCurrent ==
    ContoursCurrentFor(harmonic_ridges, contour_method, contour_smoothness,
                       harmonic_contours)

\* the same of the values after the step
ContoursCurrentNext ==
    ContoursCurrentFor(harmonic_ridges', contour_method', contour_smoothness',
                       harmonic_contours')

\* the contour method or the smoothness control changes in the step
ContourControlChanges ==
    contour_method' # contour_method
        \/ contour_smoothness' # contour_smoothness

\* C17: whenever the contour method or the smoothness control changes, the
\* contours are recomputed in full from the current ridges: after the
\* change the stored contour of every tracked harmonic is the result of
\* the new method and smoothness on that harmonic's current ridge.
C17_RecomputedOnChange ==
    [][ContourControlChanges => ContoursCurrentNext]_vars

\* C17, amended: that holds for the changes made while "Show Contour" is
\* on; while it is off a change leaves the stored contours as they are.
C17_RecomputedWhileShown ==
    [][/\ (ContourControlChanges /\ show_contour) => ContoursCurrentNext
       /\ (ContourControlChanges /\ ~show_contour) =>
             harmonic_contours' = harmonic_contours]_vars

\* "Show Contour" is on, the method is no longer the initial one, and the
\* contour of H1 over three frames is the polynomial fit of its ridge,
\* which differs from the ridge
C17_Witness ==
    /\ show_contour
    /\ contour_method = "poly"
    /\ contour_smoothness = 27
    /\ 1 \in DOMAIN harmonic_contours
    /\ 1 \in DOMAIN harmonic_ridges
    /\ Len(harmonic_ridges[1]) = 3
    /\ harmonic_contours[1] # harmonic_ridges[1]
    /\ ContoursCurrent

(***************************************************************************)
(* Claims about the learned corrections (specification SpecCorrect)        *)
(***************************************************************************)

\* the k-th detection of the tracks, in the order of the loops
DetectionAt(tracks, k) ==
    tracks[Positions(tracks)[k][1]].harmonics[Positions(tracks)[k][2]]
NDetections == Len(Positions(tracks_on_entry))

\* the detections whose answer was more than `threshold` Hz from the prior
ShiftedBeyond(threshold) ==
    {k \in 1 .. Len(predictions) :
        Abs(predictions[k].answer - predictions[k].prior) > threshold}

\* C18: with a trained model, when apply_learned_corrections has finished
\* the model was asked once for every detection, with the detection's
\* frequency as the prior; a detection is overwritten with the answer and
\* flagged model-corrected exactly when the answer is more than 5 Hz from
\* the prior (exactly 5 Hz leaves it unchanged and unflagged); the count
\* reported is the number of detections overwritten, so a model answering
\* prior + 10 everywhere corrects every detection
C18_CorrectionsApplied ==
    (pc = "done" /\ is_trained) =>
        /\ Len(predictions) = NDetections
        /\ Len(Positions(harmonic_tracks)) = NDetections
        /\ \A k \in 1 .. NDetections :
              /\ predictions[k].prior =
                     DetectionAt(tracks_on_entry, k).actual_frequency
              /\ IF k \in ShiftedBeyond(5)
                 THEN /\ DetectionAt(harmonic_tracks, k).actual_frequency =
                            predictions[k].answer
                      /\ DetectionAt(harmonic_tracks, k).model_corrected
                 ELSE DetectionAt(harmonic_tracks, k) =
                          DetectionAt(tracks_on_entry, k)
        /\ reported = Some(Cardinality(ShiftedBeyond(5)))
        /\ reported =
              Some(Cardinality({k \in 1 .. NDetections :
                      DetectionAt(harmonic_tracks, k) #
                          DetectionAt(tracks_on_entry, k)}))
        /\ (\A k \in 1 .. NDetections :
                predictions[k].answer = predictions[k].prior + 10)
              => reported = Some(NDetections)

\* a finished run with an answer exactly 5 Hz away (detection kept) and
\* an answer 10 Hz away (detection overwritten)
C18_Witness ==
    /\ pc = "done" /\ is_trained
    /\ \E k \in 1 .. Len(predictions) :
          /\ predictions[k].answer = predictions[k].prior + 5
          /\ ~DetectionAt(harmonic_tracks, k).model_corrected
    /\ \E k \in 1 .. Len(predictions) :
          /\ predictions[k].answer = predictions[k].prior + 10
          /\ DetectionAt(harmonic_tracks, k).model_corrected
    /\ reported # None
    /\ reported[1] >= 1 /\ reported[1] < NDetections

\* C19: with an untrained model, apply_learned_corrections reports 0
\* corrections, never calls the model's prediction and leaves every
\* detection as it was
C19_UntrainedReportsZero ==
    (pc = "done" /\ ~is_trained) =>
        /\ reported = Some(0)
        /\ predictions = <<>>
        /\ harmonic_tracks = tracks_on_entry

\* what a detection carries besides its frequency and its flag
Untouched(harmonic) ==
    [harmonic_number |-> harmonic.harmonic_number,
     expected_frequency |-> harmonic.expected_frequency,
     magnitude |-> harmonic.magnitude,
     freq_idx |-> harmonic.freq_idx]

\* C20: no step of a pass modifies the spectrogram, the harmonic series
\* given to the tracker or the corrector model; the handlers of the layer,
\* the tracker, the valley finder and the corrections change only their
\* own outputs; a correction changes only the frequency and the
\* model-corrected flag of detections
C20_InputsUntouched ==
    [][/\ S_db # None => S_db' = S_db
       /\ log_magnitude' = log_magnitude
       /\ is_trained' = is_trained
       /\ pc = "track" =>
             /\ UNCHANGED <<harmonic_lines, ridge_method, prominence,
                            peak_tolerance>>
             /\ UNCHANGED <<detectVars, guiVars, contourVars, valleyVars,
                            correctVars>>
       /\ pc = "gui" =>
             UNCHANGED <<detectVars, trackVars, valleyVars, correctVars>>
       /\ pc = "valleys" =>
             /\ UNCHANGED <<valley_margin, min_gap>>
             /\ UNCHANGED <<detectVars, layerVars, guiVars, contourVars,
                            correctVars>>
       /\ pc \in {"correct", "loop"} =>
             /\ UNCHANGED <<detectVars, layerVars, trackVars, guiVars,
                            contourVars, valleyVars>>
             /\ Len(harmonic_tracks') = Len(harmonic_tracks)
             /\ \A t \in 1 .. Len(harmonic_tracks) :
                   /\ harmonic_tracks'[t].time = harmonic_tracks[t].time
                   /\ Len(harmonic_tracks'[t].harmonics) =
                          Len(harmonic_tracks[t].harmonics)
                   /\ \A i \in 1 .. Len(harmonic_tracks[t].harmonics) :
                         Untouched(harmonic_tracks'[t].harmonics[i]) =
                             Untouched(harmonic_tracks[t].harmonics[i])
      ]_vars

\* the corrections have overwritten a detection
C20_Witness ==
    /\ pc = "loop"
    /\ log_magnitude # <<>>
    /\ \E k \in 1 .. n_done :
          /\ DetectionAt(harmonic_tracks, k).model_corrected
          /\ DetectionAt(harmonic_tracks, k).actual_frequency #
                 DetectionAt(tracks_on_entry, k).actual_frequency

(***************************************************************************)
(* Further claims about the fundamental detector (specification SpecDetect)*)
(***************************************************************************)

\* C22: the harmonic series returned by the detector is non-decreasing in
\* frequency, for every set of detected peaks, every tolerance and every
\* max_harmonics
C22_SeriesNonDecreasing ==
    pc = "done" =>
        \A i \in 1 .. Len(best_harmonic_series) - 1 :
            best_harmonic_series[i] <= best_harmonic_series[i + 1]

\* a returned series in which one detected peak was accepted for two
\* harmonic numbers in a row (tolerance above one half), after a lower entry
C22_Witness ==
    /\ pc = "done"
    /\ Len(best_harmonic_series) >= 3
    /\ \E i \in 2 .. Len(best_harmonic_series) - 1 :
          /\ best_harmonic_series[i] = best_harmonic_series[i + 1]
          /\ best_harmonic_series[i - 1] < best_harmonic_series[i]

C23_OneSamplePerFrame ==
    /\ \A i \in DOMAIN ridge :
          /\ Len(ridge[i]) <= t_idx
          /\ t_idx <= NFrames
          /\ \A k \in 1 .. Len(ridge[i]) :
                /\ \E t \in 1 .. t_idx : ridge[i][k][1] = times[t]
                /\ k > 1 => ridge[i][k - 1][1] < ridge[i][k][1]
    /\ \A n \in DOMAIN harmonic_ridges :
          /\ Len(harmonic_ridges[n]) <= NFrames
          /\ \A k \in 2 .. Len(harmonic_ridges[n]) :
                harmonic_ridges[n][k - 1][1] < harmonic_ridges[n][k][1]

\* a returned track that missed a frame and has a sample of the last one
C23_Witness ==
    /\ pc = "done"
    /\ \E n \in DOMAIN harmonic_ridges :
          /\ Len(harmonic_ridges[n]) < NFrames
          /\ harmonic_ridges[n][Len(harmonic_ridges[n])][1] = times[NFrames]

FreshContours(rdgs, method, smoothness, contours) ==
    /\ DOMAIN contours = {n \in DOMAIN rdgs : rdgs[n] # <<>>}
    /\ \A n \in DOMAIN contours :
          contours[n] = ContourOf(method, smoothness, rdgs[n])

C28_OneFundamental ==
    /\ detected_f0 # None => harmonic_lines # <<>>
    /\ harmonic_lines # <<>> =>
          /\ Cardinality({i \in DOMAIN harmonic_lines :
                            harmonic_lines[i].num = 1}) = 1
          /\ \A i, j \in DOMAIN harmonic_lines :
                harmonic_lines[i].num = harmonic_lines[j].num => i = j

\* H1 and H3 after H2 was removed
C28_Witness ==
    /\ detected_f0 # None
    /\ Len(harmonic_lines) = 2
    /\ harmonic_lines[1].num = 1
    /\ harmonic_lines[2].num = 3


\* the frequency of the line H1 among lines
FundamentalFreq(lines) ==
    lines[CHOOSE i \in DOMAIN lines : lines[i].num = 1].freq

\* C30: after every completed drag of the H1 line (press, any number of
\* motions, release), detected_f0 is the frequency of the H1 line, and every
\* other line's frequency has been multiplied by new/old, old the frequency
\* of H1 at the press and new the one at the release, whatever the distance
\* dragged.
C30_DragKeepsRatios ==
    [][(selected_line = Some(1) /\ selected_line' = None)
          => /\ detected_f0' = Some(FundamentalFreq(harmonic_lines'))
             /\ Len(harmonic_lines') = Len(harmonic_lines)
             /\ \A i \in DOMAIN harmonic_lines :
                   /\ harmonic_lines'[i].num = harmonic_lines[i].num
                   /\ harmonic_lines[i].num # 1
                         => harmonic_lines'[i].freq * drag_start_y[1]
                              = harmonic_lines[i].freq
                                  * FundamentalFreq(harmonic_lines')]_vars

\* a drag of H1 by at most 1 Hz has been released: the line stays where it
\* was dropped and detected_f0 where it was
C30_SmallDragReleased ==
    /\ selected_line = None
    /\ harmonic_lines # <<>>
    /\ detected_f0 # None
    /\ detected_f0 # Some(FundamentalFreq(harmonic_lines))


\* the numbers of the harmonics in harmonic_lines
LineNumbers == {harmonic_lines[i].num : i \in DOMAIN harmonic_lines}

\* C29: after any sequence of detect_f0, add, remove and clear of harmonics,
\* drags of lines and toggles of the display options, every harmonic number
\* with a ridge in harmonic_ridges, and every number with a contour in
\* harmonic_contours while Show Contour is on, is the number of a harmonic
\* in harmonic_lines.
C29_NoStaleRidgeOrContour ==
    /\ DOMAIN harmonic_ridges \subseteq LineNumbers
    /\ show_contour => DOMAIN harmonic_contours \subseteq LineNumbers

\* the ridges alone
C29_NoStaleRidge == DOMAIN harmonic_ridges \subseteq LineNumbers


\* the detections of the tracks
TemplateDetections ==
    {harmonic_tracks[t].harmonics[k] :
        <<t, k>> \in {tk \in (1 .. Len(harmonic_tracks)) \X (1 .. 2) :
                        tk[2] <= Len(harmonic_tracks[tk[1]].harmonics)}}

\* actual_frequency within expected_frequency * freq_tolerance of
\* expected_frequency
InSearchWindow(d) ==
    LET lo == <<d.expected_frequency * (freq_tolerance[2] - freq_tolerance[1]),
                freq_tolerance[2]>>
        hi == <<d.expected_frequency * (freq_tolerance[2] + freq_tolerance[1]),
                freq_tolerance[2]>>
    IN  FracLeq(lo, d.actual_frequency) /\ FracLeq(d.actual_frequency, hi)

\* C27: after track_harmonics_with_template returns, the smoothing of the
\* trajectories included, the actual_frequency of every detection lies
\* within its search window [expected - expected * freq_tolerance,
\* expected + expected * freq_tolerance].
C27_DetectionsInWindow ==
    pc = "done" => \A d \in TemplateDetections : InSearchWindow(d)

\* before the smoothing every detection is within its window
C27_DetectionsInWindowBeforeSmoothing ==
    pc = "template" => \A d \in TemplateDetections : InSearchWindow(d)

=============================================================================
